---------------------------- MODULE Spec2Model ----------------------------
(***************************************************************************)
(* Model of the dictionary scraper: the text normalizer of                 *)
(* utils/common.js (TextProcessor) and the WordReference and Linguee       *)
(* extractors of scrapers/wordreference.js.                                *)
(*                                                                         *)
(* A JavaScript string is a sequence of characters; a character is a       *)
(* one-element string ("a", " ", "!"), and a character outside ASCII is    *)
(* written by its code point ("U+00E9").                                   *)
(***************************************************************************)
EXTENDS Integers, Sequences, FiniteSets, TLC

VARIABLES
    tp_pc,      \* TextProcessor: position of the caller ("idle" when unused)
    tp_fn,      \* TextProcessor: the method under call
    tp_text,    \* TextProcessor: the argument `text`
    tp_out,     \* TextProcessor: the value returned by the first call
    tp_out2,    \* TextProcessor: cleanText applied to tp_out
    wr_pc,      \* WordReference extractor: position ("idle" when unused)
    wr_html,    \* WordReference extractor: the parsed document
    wr_word,    \* WordReference extractor: the argument inputWord
    wr_result,  \* WordReference extractor: the object processHTML returns
    lg_pc,      \* Linguee extractor: position ("idle" when unused)
    lg_html,    \* Linguee extractor: the parsed document
    lg_word,    \* Linguee extractor: the argument inputWord
    lg_primary, \* Linguee extractor: result.translations after the lemma loop
    lg_fallback,\* Linguee extractor: tryFallbackProcessing has been called
    lg_result,  \* Linguee extractor: the translations of the object returned
    au_pc,      \* audio links: position ("idle" when unused)
    au_html,    \* audio links: the audio-related text of the document
    au_links,   \* audio links: the audioLinks processHTML puts in its result
    au_extracted, \* audio links: the list AudioExtractor returns
    rp_pc,      \* repeated extraction: position ("idle" when unused)
    rp_fn,      \* repeated extraction: the extractor under call
    rp_html,    \* repeated extraction: the document given to both calls
    rp_word,    \* repeated extraction: the input word given to both calls
    rp_now,     \* repeated extraction: the clock, in milliseconds
    rp_first,   \* repeated extraction: the object the first call returned
    rp_second,  \* repeated extraction: the object the second call returned
    api_pc,     \* entry point: position of its caller ("idle" when unused)
    api_fn,     \* entry point: the exported function called
    api_word,   \* entry point: the argument word
    api_from,   \* entry point: the argument from
    api_to,     \* entry point: the argument to
    api_dict,   \* entry point: the argument dictionary of translateWith
    api_now,    \* entry point: the clock, in milliseconds
    api_out,    \* entry point: the value resolved or the error thrown
    sc,         \* per dictionary: the call of its scrape function in progress
    md_pc,      \* MultiDictionaryScraper.translate: position ("idle" when unused)
    md_key,     \* MultiDictionaryScraper.translate: the argument dictionaryKey
    md_word,    \* MultiDictionaryScraper.translate: the argument word
    md_from,    \* MultiDictionaryScraper.translate: the argument from
    md_to,      \* MultiDictionaryScraper.translate: the argument to
    md_now,     \* MultiDictionaryScraper.translate: the clock, in milliseconds
    md_calls,   \* MultiDictionaryScraper.translate: the calls of dict.scraper
    md_caught,  \* MultiDictionaryScraper.translate: the message of the error caught
    md_out,     \* MultiDictionaryScraper.translate: the value resolved or the error thrown
    ta_pc,      \* translateAuto: position ("idle" when unused)
    ta_word,    \* translateAuto: the argument word
    ta_from,    \* translateAuto: the argument from
    ta_to,      \* translateAuto: the argument to
    ta_now,     \* translateAuto: the clock, in milliseconds
    ta_dicts,   \* translateAuto: compatibleDicts
    ta_i,       \* translateAuto: index in compatibleDicts of the dictionary awaited
    ta_calls,   \* translateAuto: the keys whose scraper was called, in call order
    ta_results, \* translateAuto: the results this.translate resolved with
    ta_out,     \* translateAuto: the value resolved or the error thrown
    rq_pc,      \* RequestHandler: position ("idle" when unused)
    rq_fn,      \* RequestHandler: the method called
    rq_url,     \* RequestHandler: the argument url
    rq_browser, \* RequestHandler: whether window.document is defined
    rq_i,       \* RequestHandler: index in CORS_PROXIES of the proxy awaited
    rq_log,     \* RequestHandler: the URLs requested with axios.get, in order
    rq_answers, \* RequestHandler: what each request of rq_log was answered with
    rq_errors,  \* RequestHandler: the array errors of requestWithProxy
    rq_out,     \* RequestHandler: the value resolved or the error thrown
    fq_pc,      \* extractFrequency: position ("idle" when unused)
    fq_element, \* extractFrequency: the texts of the .tag_c elements of the argument
    fq_out,     \* extractFrequency: the value returned
    rl_queue,   \* RateLimiter: this.queue, the functions by the number of their execute call
    rl_processing,\* RateLimiter: this.processing
    rl_pc,      \* RateLimiter: where the loop of processQueue waits ("idle": no loop)
    rl_clock,   \* RateLimiter: Date.now(), in units of the clock
    rl_last,    \* RateLimiter: this.lastRequestTime
    rl_calls,   \* RateLimiter: per execute call so far, this.processing at the call
    rl_started, \* RateLimiter: the functions called by the loop, in call order
    rl_fn,      \* RateLimiter: per function, how it ended ("none": not yet)
    rl_promise  \* RateLimiter: per execute call, how its promise settled

tpVars == <<tp_pc, tp_fn, tp_text, tp_out, tp_out2>>
wrVars == <<wr_pc, wr_html, wr_word, wr_result>>
lgVars == <<lg_pc, lg_html, lg_word, lg_primary, lg_fallback, lg_result>>
auVars == <<au_pc, au_html, au_links, au_extracted>>
rpVars == <<rp_pc, rp_fn, rp_html, rp_word, rp_now, rp_first, rp_second>>
apiVars == <<api_pc, api_fn, api_word, api_from, api_to, api_dict, api_now,
             api_out, sc>>
mdVars == <<md_pc, md_key, md_word, md_from, md_to, md_now, md_calls, md_caught,
            md_out>>
taVars == <<ta_pc, ta_word, ta_from, ta_to, ta_now, ta_dicts, ta_i, ta_calls,
            ta_results, ta_out>>
rqVars == <<rq_pc, rq_fn, rq_url, rq_browser, rq_i, rq_log, rq_answers,
            rq_errors, rq_out>>
fqVars == <<fq_pc, fq_element, fq_out>>
rlVars == <<rl_queue, rl_processing, rl_pc, rl_clock, rl_last, rl_calls,
            rl_started, rl_fn, rl_promise>>

vars == <<tp_pc, tp_fn, tp_text, tp_out, tp_out2,
          wr_pc, wr_html, wr_word, wr_result,
          lg_pc, lg_html, lg_word, lg_primary, lg_fallback, lg_result,
          au_pc, au_html, au_links, au_extracted,
          rp_pc, rp_fn, rp_html, rp_word, rp_now, rp_first, rp_second,
          api_pc, api_fn, api_word, api_from, api_to, api_dict, api_now,
          api_out, sc,
          md_pc, md_key, md_word, md_from, md_to, md_now, md_calls, md_caught,
          md_out,
          ta_pc, ta_word, ta_from, ta_to, ta_now, ta_dicts, ta_i, ta_calls,
          ta_results, ta_out,
          rq_pc, rq_fn, rq_url, rq_browser, rq_i, rq_log, rq_answers,
          rq_errors, rq_out,
          fq_pc, fq_element, fq_out,
          rl_queue, rl_processing, rl_pc, rl_clock, rl_last, rl_calls,
          rl_started, rl_fn, rl_promise>>

\* what a call of one component leaves alone: the state of the others
exceptText == <<wrVars, lgVars, auVars, rpVars, apiVars, mdVars, taVars,
                rqVars, fqVars, rlVars>>
exceptWR == <<tpVars, lgVars, auVars, rpVars, apiVars, mdVars, taVars, rqVars,
              fqVars, rlVars>>
exceptLG == <<tpVars, wrVars, auVars, rpVars, apiVars, mdVars, taVars, rqVars,
              fqVars, rlVars>>
exceptAudio == <<tpVars, wrVars, lgVars, rpVars, apiVars, mdVars, taVars,
                 rqVars, fqVars, rlVars>>
exceptRepeat == <<tpVars, wrVars, lgVars, auVars, apiVars, mdVars, taVars,
                  rqVars, fqVars, rlVars>>
exceptApi == <<tpVars, wrVars, lgVars, auVars, rpVars, mdVars, taVars, rqVars,
               fqVars, rlVars>>
exceptMulti == <<tpVars, wrVars, lgVars, auVars, rpVars, apiVars, taVars,
                 rqVars, fqVars, rlVars>>
exceptAuto == <<tpVars, wrVars, lgVars, auVars, rpVars, apiVars, mdVars,
                rqVars, fqVars, rlVars>>
exceptRequest == <<tpVars, wrVars, lgVars, auVars, rpVars, apiVars, mdVars,
                   taVars, fqVars, rlVars>>
exceptFrequency == <<tpVars, wrVars, lgVars, auVars, rpVars, apiVars, mdVars,
                     taVars, rqVars, rlVars>>
exceptLimiter == <<tpVars, wrVars, lgVars, auVars, rpVars, apiVars, mdVars,
                   taVars, rqVars, fqVars>>

(***************************************************************************)
(* Bounds                                                                  *)
(***************************************************************************)
\* longest argument of cleanText
MaxLen == 5
\* most words joined into one argument of extractGrammaticalType
MaxParts == 2
\* most table.WRD elements of a WordReference page
MaxTables == 1
\* most rows of one table
MaxRows == 3
\* most top-level blocks of a Linguee page
MaxBlocks == 1
\* most .translation elements (or plain links) of one block
MaxTrans == 2
\* most .example elements of one lemma
MaxExamples == 1

(***************************************************************************)
(* Characters and the String methods the code calls                        *)
(***************************************************************************)
Lowers == <<"a","b","c","d","e","f","g","h","i","j","k","l","m",
            "n","o","p","q","r","s","t","u","v","w","x","y","z">>
Uppers == <<"A","B","C","D","E","F","G","H","I","J","K","L","M",
            "N","O","P","Q","R","S","T","U","V","W","X","Y","Z">>
Digits == {"0","1","2","3","4","5","6","7","8","9"}

\* \s of a JavaScript regular expression (the members the inputs use)
IsSpace(c) == c \in {" ", "\t", "\n"}

\* \w of a JavaScript regular expression: [A-Za-z0-9_]
IsWordChar(c) ==
    \/ \E i \in 1..26 : c = Lowers[i] \/ c = Uppers[i]
    \/ c \in Digits
    \/ c = "_"

\* the Unicode ranges of the character class of cleanText, by the code
\* points the inputs use: U+00E9 (Latin-1/Extended-A), U+0416 (Cyrillic),
\* U+4E2D (CJK)
InAllowedRange(c) == c \in {"U+00E9", "U+0416", "U+4E2D"}

ToLowerChar(c) ==
    IF \E i \in 1..26 : Uppers[i] = c
    THEN Lowers[CHOOSE i \in 1..26 : Uppers[i] = c]
    ELSE c

\* String.prototype.toLowerCase
ToLowerCase(s) == [i \in 1..Len(s) |-> ToLowerChar(s[i])]

RECURSIVE TrimStart(_)
TrimStart(s) ==
    IF s # <<>> /\ IsSpace(Head(s)) THEN TrimStart(Tail(s)) ELSE s

RECURSIVE TrimEnd(_)
TrimEnd(s) ==
    IF s # <<>> /\ IsSpace(s[Len(s)])
    THEN TrimEnd(SubSeq(s, 1, Len(s) - 1))
    ELSE s

\* String.prototype.trim
Trim(s) == TrimEnd(TrimStart(s))

\* String.prototype.includes
Includes(s, sub) ==
    \E i \in 0..(Len(s) - Len(sub)) : SubSeq(s, i + 1, i + Len(sub)) = sub

(***************************************************************************)
(* TextProcessor.cleanText                                                 *)
(***************************************************************************)
\* .replace(/\s+/g, ' '): every maximal run of whitespace becomes one space
RECURSIVE CollapseSpaces(_)
CollapseSpaces(s) ==
    IF s = <<>> THEN <<>>
    ELSE IF IsSpace(Head(s))
         THEN <<" ">> \o CollapseSpaces(TrimStart(s))
         ELSE <<Head(s)>> \o CollapseSpaces(Tail(s))

\* .replace(/^\s+|\s+$/g, '')
StripEnds(s) == TrimEnd(TrimStart(s))

\* the character class [\w\sÀ-ſ...] whose complement is removed
IsValidChar(c) == IsWordChar(c) \/ IsSpace(c) \/ InAllowedRange(c)

\* .replace(/[^\w\s...]/g, '')
RemoveInvalid(s) == SelectSeq(s, IsValidChar)

cleanText(text) ==
    IF text = <<>> THEN <<>>
    ELSE Trim(RemoveInvalid(StripEnds(CollapseSpaces(text))))

(***************************************************************************)
(* TextProcessor.extractGrammaticalType                                    *)
(***************************************************************************)
\* the object literal typeMap; Object.entries yields its own properties in
\* the order of declaration
typeMap == <<
    <<<<"n","o","u","n">>, <<"n">>>>,
    <<<<"v","e","r","b">>, <<"v">>>>,
    <<<<"a","d","j","e","c","t","i","v","e">>, <<"a","d","j">>>>,
    <<<<"a","d","v","e","r","b">>, <<"a","d","v">>>>,
    <<<<"p","r","e","p","o","s","i","t","i","o","n">>, <<"p","r","e","p">>>>,
    <<<<"c","o","n","j","u","n","c","t","i","o","n">>, <<"c","o","n","j">>>>,
    <<<<"i","n","t","e","r","j","e","c","t","i","o","n">>, <<"i","n","t","e","r","j">>>>,
    <<<<"p","r","o","n","o","u","n">>, <<"p","r","o","n">>>>,
    <<<<"a","r","t","i","c","l","e">>, <<"a","r","t">>>>,
    <<<<"m","a","s","c","u","l","i","n","e">>, <<"m">>>>,
    <<<<"f","e","m","i","n","i","n","e">>, <<"f">>>>,
    <<<<"n","e","u","t","e","r">>, <<"n","t">>>>,
    <<<<"p","l","u","r","a","l">>, <<"p","l">>>>,
    <<<<"s","i","n","g","u","l","a","r">>, <<"s","g">>>>,
    <<<<"i","n","v","a","r","i","a","b","l","e">>, <<"i","n","v">>>>
>>

\* properties every object literal inherits from Object.prototype and whose
\* names are lower-case already; the value is an object, written as a
\* one-element sequence that is no string of characters
InheritedProps == <<
    <<<<"c","o","n","s","t","r","u","c","t","o","r">>, <<"[Function: Object]">> >>,
    <<<<"_","_","p","r","o","t","o","_","_">>, <<"[Object: null prototype]">> >>
>>

\* typeMap[normalized]: own property first, then the prototype chain;
\* <<>> stands for undefined
TypeMapGet(normalized) ==
    IF \E i \in 1..Len(typeMap) : typeMap[i][1] = normalized
    THEN typeMap[CHOOSE i \in 1..Len(typeMap) : typeMap[i][1] = normalized][2]
    ELSE IF \E i \in 1..Len(InheritedProps) : InheritedProps[i][1] = normalized
         THEN InheritedProps[CHOOSE i \in 1..Len(InheritedProps) :
                                 InheritedProps[i][1] = normalized][2]
         ELSE <<>>

\* the loop run over the entries in the opposite order
RECURSIVE PartialMatch_LastFirst(_, _)
PartialMatch_LastFirst(normalized, i) ==
    IF i > Len(typeMap) THEN <<>>
    ELSE LET j == Len(typeMap) + 1 - i
         IN  IF Includes(normalized, typeMap[j][1]) THEN typeMap[j][2]
             ELSE PartialMatch_LastFirst(normalized, i + 1)

\* for (const [key, value] of Object.entries(typeMap))
\*     if (normalized.includes(key)) return value;
\* entries from index i on; <<>> when the loop falls through
RECURSIVE PartialMatchFrom(_, _)
PartialMatchFrom(normalized, i) ==
    IF i > Len(typeMap) THEN <<>>
    ELSE IF Includes(normalized, typeMap[i][1]) THEN typeMap[i][2]
         ELSE PartialMatchFrom(normalized, i + 1)

PartialMatch(normalized) == PartialMatchFrom(normalized, 1)

\* the exact lookup left out, every argument going to the partial loop
ExactMatch_Skipped(normalized) == <<>>

\* if (typeMap[normalized]) return typeMap[normalized];
ExactMatch(normalized) == TypeMapGet(normalized)

extractGrammaticalType(text) ==
    IF text = <<>> THEN <<>>
    ELSE LET normalized == Trim(ToLowerCase(text))
         IN  IF ExactMatch(normalized) # <<>> THEN ExactMatch(normalized)
             ELSE IF PartialMatch(normalized) # <<>>
                  THEN PartialMatch(normalized)
                  ELSE normalized

(***************************************************************************)
(* Arguments of the TextProcessor calls                                    *)
(***************************************************************************)
\* a letter, a space, a tab, a character the class removes, an accented
\* letter the class keeps
CleanAlphabet == {"a", " ", "\t", "!", "U+00E9"}

RECURSIVE StringsUpTo(_, _)
StringsUpTo(alphabet, n) ==
    IF n = 0 THEN {<<>>}
    ELSE LET shorter == StringsUpTo(alphabet, n - 1)
         IN  shorter \cup {<<c>> \o s : c \in alphabet,
                                         s \in {t \in shorter : Len(t) = n - 1}}

CleanInputs == StringsUpTo(CleanAlphabet, MaxLen)

ToUpperChar(c) ==
    IF \E i \in 1..26 : Lowers[i] = c
    THEN Uppers[CHOOSE i \in 1..26 : Lowers[i] = c]
    ELSE c

Cased(s, mode) ==
    CASE mode = "lower"   -> s
      [] mode = "upper"   -> [i \in 1..Len(s) |-> ToUpperChar(s[i])]
      [] mode = "capital" -> [i \in 1..Len(s) |->
                                 IF i = 1 THEN ToUpperChar(s[i]) ELSE s[i]]

\* the fifteen role names, a word that contains none of them, and a name
\* found on the prototype chain
GrammarWords ==
    {typeMap[i][1] : i \in 1..Len(typeMap)}
        \cup {<<"x","y","z">>, <<"c","o","n","s","t","r","u","c","t","o","r">>}

RECURSIVE Joined(_, _)
Joined(n, sep) ==
    IF n = 1 THEN GrammarWords
    ELSE {w \o sep \o r : w \in GrammarWords, r \in Joined(n - 1, sep)}

GrammarInputs ==
    {<<>>, <<" ">>} \cup
    {pad \o Cased(b, mode) \o pad :
        b \in UNION {Joined(n, sep) : n \in 1..MaxParts, sep \in {<<>>, <<" ">>}},
        mode \in {"lower", "upper", "capital"},
        pad \in {<<>>, <<" ">>}}

(***************************************************************************)
(* TextProcessor: the calls                                                *)
(***************************************************************************)
IdleText ==
    /\ tp_pc = "idle"
    /\ tp_fn = "none"
    /\ tp_text = <<>>
    /\ tp_out = <<>>
    /\ tp_out2 = <<>>

StartText ==
    /\ tp_pc = "start"
    /\ \/ tp_fn = "cleanText" /\ tp_text \in CleanInputs
       \/ tp_fn = "extractGrammaticalType" /\ tp_text \in GrammarInputs
    /\ tp_out = <<>>
    /\ tp_out2 = <<>>

\* TextProcessor.cleanText(text)
CleanText ==
    /\ tp_pc = "start"
    /\ tp_fn = "cleanText"
    /\ tp_out' = cleanText(tp_text)
    /\ tp_pc' = "cleaned"
    /\ UNCHANGED <<tp_fn, tp_text, tp_out2>>
    /\ UNCHANGED exceptText

\* TextProcessor.cleanText applied to a value cleanText returned
CleanTextAgain ==
    /\ tp_pc = "cleaned"
    /\ tp_out2' = cleanText(tp_out)
    /\ tp_pc' = "recleaned"
    /\ UNCHANGED <<tp_fn, tp_text, tp_out>>
    /\ UNCHANGED exceptText

\* TextProcessor.extractGrammaticalType(text)
ExtractGrammaticalType ==
    /\ tp_pc = "start"
    /\ tp_fn = "extractGrammaticalType"
    /\ tp_out' = extractGrammaticalType(tp_text)
    /\ tp_pc' = "classified"
    /\ UNCHANGED <<tp_fn, tp_text, tp_out2>>
    /\ UNCHANGED exceptText

NextText ==
    \/ CleanText
    \/ CleanTextAgain
    \/ ExtractGrammaticalType

(***************************************************************************)
(* WordReference extractor: the document                                   *)
(*                                                                         *)
(* A page is the sequence of its table.WRD elements.  A table is the       *)
(* texts of its tr.wrtopsection rows and the sequence of its other rows.   *)
(* A row has its class, whether it carries an id attribute, and its        *)
(* td.FrWrd, td.ToWrd, td.Ex, td.FrEx and td.ToEx cells (each a possibly   *)
(* empty collection).  A word cell is its text outside em elements, the    *)
(* text of its em elements and the text of its .tooltip elements.          *)
(***************************************************************************)
\* the separator of the split of line 134, three characters
ExampleSeparator == <<"U+00E2", "U+2021", "U+2019">>

NoCell == <<>>

WordCell(text, em) == <<[text |-> text, em |-> em, tooltip |-> <<>>]>>

Row(cls, hasId, fr, to, ex, frEx, toEx) ==
    [cls |-> cls, hasId |-> hasId, FrWrd |-> fr, ToWrd |-> to,
     Ex |-> ex, FrEx |-> frEx, ToEx |-> toEx]

\* a source word and its translation
PlainWordRow ==
    Row("even", TRUE, WordCell(<<"w", " ">>, <<"n">>), WordCell(<<"t">>, <<"v">>),
        NoCell, NoCell, NoCell)
\* a source word whose translation cell is empty
EmptyTargetRow ==
    Row("odd", TRUE, WordCell(<<"w">>, <<"n">>), WordCell(<<>>, <<>>),
        NoCell, NoCell, NoCell)
\* a word row that carries a td.Ex cell holding the separator
InlineExampleRow ==
    Row("even", TRUE, WordCell(<<"w">>, <<>>), WordCell(<<>>, <<>>),
        <<<<"a", " ">> \o ExampleSeparator \o <<" ", "b">>>>, NoCell, NoCell)
\* a row with an id and a target cell but no source cell
NoSourceRow ==
    Row("even", TRUE, NoCell, WordCell(<<"t">>, <<"v">>), NoCell, NoCell, NoCell)
\* a source-example row and a target-example row, as the site writes them
FrExRow == Row("even", FALSE, NoCell, NoCell, NoCell, <<<<"s">>>>, NoCell)
ToExRow == Row("even", FALSE, NoCell, NoCell, NoCell, NoCell, <<<<"e">>>>)

Rows == {PlainWordRow, EmptyTargetRow, InlineExampleRow, NoSourceRow,
         FrExRow, ToExRow}

\* no title row, or one whose text is padded
TitleRows == {<<>>, <<<<" ", "T">>>>}

RECURSIVE SeqsUpTo(_, _)
SeqsUpTo(S, n) ==
    IF n = 0 THEN {<<>>}
    ELSE LET shorter == SeqsUpTo(S, n - 1)
         IN  shorter \cup {<<x>> \o s : x \in S,
                                         s \in {t \in shorter : Len(t) = n - 1}}

Tables == [titleRows : TitleRows, rows : SeqsUpTo(Rows, MaxRows)]

Pages == SeqsUpTo(Tables, MaxTables)

WRWords == {<<"w">>, <<"h", "i">>}

(***************************************************************************)
(* WordReference extractor: processHTML and processWRDTable                *)
(***************************************************************************)
\* String.prototype.split with a non-empty string separator
RECURSIVE Split(_, _)
Split(s, sep) ==
    IF Includes(s, sep)
    THEN LET i == CHOOSE k \in 0..(Len(s) - Len(sep)) :
                      /\ SubSeq(s, k + 1, k + Len(sep)) = sep
                      /\ \A m \in 0..(k - 1) : SubSeq(s, m + 1, m + Len(sep)) # sep
         IN  <<SubSeq(s, 1, i)>> \o Split(SubSeq(s, i + Len(sep) + 1, Len(s)), sep)
    ELSE <<s>>

\* .text() of a collection: the texts of its members, concatenated
RECURSIVE Concat(_)
Concat(texts) ==
    IF texts = <<>> THEN <<>> ELSE Head(texts) \o Concat(Tail(texts))

CellField(cells, f) == Concat([i \in 1..Len(cells) |-> cells[i][f]])

\* lines 130-141: the examples of a row, read from its td.Ex cell
RowExamples(row) ==
    IF Len(row.Ex) > 0
    THEN LET exampleParts == Split(Trim(Concat(row.Ex)), ExampleSeparator)
         IN  IF Len(exampleParts) = 2
             THEN <<[phrase |-> Trim(exampleParts[1]),
                     translations |-> <<Trim(exampleParts[2])>>]>>
             ELSE <<>>
    ELSE <<>>

\* lines 121-155: the Translation pushed for a row that has both word cells
RowTranslation(row) ==
    [word |-> [word |-> Trim(CellField(row.FrWrd, "text")),
               pos |-> Trim(CellField(row.FrWrd, "em"))],
     definition |-> Trim(CellField(row.FrWrd, "tooltip")),
     meanings |-> <<[word |-> Trim(CellField(row.ToWrd, "text")),
                     pos |-> Trim(CellField(row.ToWrd, "em")),
                     sense |-> <<>>]>>,
     examples |-> RowExamples(row)]

\* $table.find('tr.even[id], tr.odd[id]')
IsTranslationRow(row) == row.cls \in {"even", "odd"} /\ row.hasId

\* line 119: if (fromCell.length === 0 || toCell.length === 0) return;
HasWordCells(row) == ~(Len(row.FrWrd) = 0 \/ Len(row.ToWrd) = 0)

\* the callback of translationRows.each, applied to the rows in order
RECURSIVE RowTranslations(_)
RowTranslations(rows) ==
    IF rows = <<>> THEN <<>>
    ELSE (IF HasWordCells(Head(rows)) THEN <<RowTranslation(Head(rows))>> ELSE <<>>)
             \o RowTranslations(Tail(rows))

processWRDTable(table) ==
    [title |-> IF Len(table.titleRows) > 0 THEN Trim(table.titleRows[1]) ELSE <<>>,
     translations |-> RowTranslations(SelectSeq(table.rows, IsTranslationRow))]

\* line 94: if (section.title || section.translations.length > 0)
KeepSection(section) == section.title # <<>> \/ Len(section.translations) > 0

\* the fields of the result that depend on the tables
processHTML(html, inputWord) ==
    [inputWord |-> inputWord,
     sections |-> SelectSeq([i \in 1..Len(html) |-> processWRDTable(html[i])],
                            KeepSection),
     source |-> "wordreference"]

IdleWR ==
    /\ wr_pc = "idle"
    /\ wr_html = <<>>
    /\ wr_word = <<>>
    /\ wr_result = <<>>

StartWR ==
    /\ wr_pc = "start"
    /\ wr_html \in Pages
    /\ wr_word \in WRWords
    /\ wr_result = <<>>

\* processHTML(html, inputWord)
ProcessHTML ==
    /\ wr_pc = "start"
    /\ wr_result' = processHTML(wr_html, wr_word)
    /\ wr_pc' = "done"
    /\ UNCHANGED <<wr_html, wr_word>>
    /\ UNCHANGED exceptWR

NextWR == ProcessHTML

(***************************************************************************)
(* Linguee extractor: the document                                         *)
(*                                                                         *)
(* A page is whether it has a #dictionary element and the sequence of its  *)
(* top-level blocks.  A block has its class (.lemma, .translation_group,   *)
(* .meaninggroup, or a plain div), whether it lies inside #dictionary, the *)
(* texts of its .tag_lemma .dictLink elements, the text of the             *)
(* .tag_trans .dictLink of each of its .translation elements, and the      *)
(* .tag_s and .tag_t texts of each of its .example elements.  The          *)
(* .dictLink elements of a block are those of .tag_lemma followed by those *)
(* of the .translation elements.  Fields the extractor copies from the     *)
(* markup without testing them (fromType, audio, type, frequency,          *)
(* verified, external) are not part of an entry here.                      *)
(***************************************************************************)
\* texts of links: none, the queried word in either letter case (one of
\* them padded), another word
LinkTexts == {<<>>, <<"a">>, <<" ", "A">>, <<"b">>}

ExamplePairs == {[s |-> <<"s">>, t |-> <<"e", " ">>], [s |-> <<"s">>, t |-> <<" ">>]}

LemmaBlocks ==
    [cls : {"lemma"},
     lemmaLinks : {<<>>, <<<<"a">>>>, <<<<" ", "A">>>>},
     translations : SeqsUpTo(LinkTexts, MaxTrans),
     examples : SeqsUpTo(ExamplePairs, MaxExamples)]

\* blocks that are no lemma and hold links only
GroupBlocks ==
    [cls : {"translation_group", "meaninggroup", "div"},
     lemmaLinks : {<<>>},
     translations : SeqsUpTo({<<"a">>, <<"b">>}, MaxTrans),
     examples : {<<>>}]

Blocks == LemmaBlocks \cup GroupBlocks

\* the blocks inside #dictionary are marked; none is when there is no #dictionary
LingueePages ==
    {[hasDictionary |-> d, inDictionary |-> m, blocks |-> b] :
        d \in BOOLEAN,
        b \in SeqsUpTo(Blocks, MaxBlocks),
        m \in UNION {[1..n -> BOOLEAN] : n \in 0..MaxBlocks}}

LingueeWords == {<<"A">>, <<"b">>}

(***************************************************************************)
(* Linguee extractor: processLingueeHTML and tryFallbackProcessing         *)
(***************************************************************************)
\* the filter of line 719 without the comparison with the source word
KeepCandidate_NoSelfFilter(translatedText, sourceWord) == translatedText # <<>>

\* line 719: if (translatedText && translatedText !== sourceWord)
KeepCandidate(translatedText, sourceWord) ==
    translatedText # <<>> /\ translatedText # sourceWord

\* lines 714-730: the candidates of a lemma
RECURSIVE Candidates(_, _)
Candidates(translations, sourceWord) ==
    IF translations = <<>> THEN <<>>
    ELSE LET translatedText == Trim(Head(translations))
         IN  (IF KeepCandidate(translatedText, sourceWord)
              THEN <<[text |-> translatedText]>> ELSE <<>>)
                 \o Candidates(Tail(translations), sourceWord)

\* lines 733-746: the contexts of a lemma
RECURSIVE Contexts(_)
Contexts(examples) ==
    IF examples = <<>> THEN <<>>
    ELSE LET sourceText == Trim(Head(examples).s)
             targetText == Trim(Head(examples).t)
         IN  (IF sourceText # <<>> /\ targetText # <<>>
              THEN <<[source |-> sourceText, target |-> targetText]>> ELSE <<>>)
                 \o Contexts(Tail(examples))

\* the retention test of line 748 left out
KeepLemma_Always(translation) == TRUE

\* line 748: if (translation.translations.length > 0 || translation.contexts.length > 0)
KeepLemma(translation) ==
    Len(translation.translations) > 0 \/ Len(translation.contexts) > 0

\* lines 680-750: the callback of the lemma loop; the entries it pushes
LemmaEntries(block) ==
    LET sourceWord == Trim(IF block.lemmaLinks = <<>> THEN <<>>
                           ELSE Head(block.lemmaLinks))
        translation == [from |-> sourceWord,
                        translations |-> Candidates(block.translations, sourceWord),
                        contexts |-> Contexts(block.examples)]
    IN  IF sourceWord = <<>> THEN <<>>
        ELSE IF KeepLemma(translation) THEN <<translation>> ELSE <<>>

\* line 676-679: $dictionary.find('.lemma'), $dictionary being #dictionary
\* when the page has one and body otherwise
InScope(html, i) ==
    /\ html.blocks[i].cls = "lemma"
    /\ html.hasDictionary => html.inDictionary[i]

RECURSIVE PrimaryFrom(_, _)
PrimaryFrom(html, i) ==
    IF i > Len(html.blocks) THEN <<>>
    ELSE (IF InScope(html, i) THEN LemmaEntries(html.blocks[i]) ELSE <<>>)
             \o PrimaryFrom(html, i + 1)

\* lines 667-751: result.translations when the lemma loop ends
PrimaryPass(html) == PrimaryFrom(html, 1)

\* the .dictLink elements of a block, in document order
DictLinks(block) == block.lemmaLinks \o block.translations

\* the container test of line 782 left out
HasContainer_Always(block) == TRUE

\* lines 780-782: $link.closest('.lemma, .translation_group, .meaninggroup')
\* has an element
HasContainer(block) == block.cls \in {"lemma", "translation_group", "meaninggroup"}

\* lines 792-804: the links of the container whose text differs
RECURSIVE Related(_, _)
Related(links, text) ==
    IF links = <<>> THEN <<>>
    ELSE LET tText == Trim(Head(links))
         IN  (IF tText # <<>> /\ tText # text
              THEN <<[text |-> tText]>> ELSE <<>>)
                 \o Related(Tail(links), text)

\* lines 775-810: the callback of the link loop for link k of a block
FallbackEntries(block, k, inputWord) ==
    LET text == Trim(DictLinks(block)[k])
        translation == [from |-> text,
                        translations |-> Related(DictLinks(block), text),
                        contexts |-> <<>>]
    IN  IF text # <<>> /\ Includes(ToLowerCase(text), ToLowerCase(inputWord))
        THEN IF HasContainer(block)
             THEN IF Len(translation.translations) > 0
                  THEN <<translation>> ELSE <<>>
             ELSE <<>>
        ELSE <<>>

RECURSIVE FallbackBlock(_, _, _)
FallbackBlock(block, k, inputWord) ==
    IF k > Len(DictLinks(block)) THEN <<>>
    ELSE FallbackEntries(block, k, inputWord)
             \o FallbackBlock(block, k + 1, inputWord)

RECURSIVE FallbackFrom(_, _, _)
FallbackFrom(html, i, inputWord) ==
    IF i > Len(html.blocks) THEN <<>>
    ELSE FallbackBlock(html.blocks[i], 1, inputWord)
             \o FallbackFrom(html, i + 1, inputWord)

\* lines 764-814: the translations of the object tryFallbackProcessing returns
tryFallbackProcessing(html, inputWord) == FallbackFrom(html, 1, inputWord)

\* the fallback taken whenever the lemma loop kept at most one block
NeedsFallback_AtMostOne(translations) == Len(translations) <= 1

\* line 754: if (result.translations.length === 0)
NeedsFallback(translations) == Len(translations) = 0

IdleLG ==
    /\ lg_pc = "idle"
    /\ lg_html = <<>>
    /\ lg_word = <<>>
    /\ lg_primary = <<>>
    /\ lg_fallback = FALSE
    /\ lg_result = <<>>

StartLG ==
    /\ lg_pc = "start"
    /\ lg_html \in {h \in LingueePages :
                      /\ DOMAIN h.inDictionary = 1..Len(h.blocks)
                      /\ \A i \in 1..Len(h.blocks) :
                            h.inDictionary[i] => h.hasDictionary}
    /\ lg_word \in LingueeWords
    /\ lg_primary = <<>>
    /\ lg_fallback = FALSE
    /\ lg_result = <<>>

\* processLingueeHTML, lines 666-751: the lemma loop
PrimaryLoop ==
    /\ lg_pc = "start"
    /\ lg_primary' = PrimaryPass(lg_html)
    /\ lg_pc' = "looped"
    /\ UNCHANGED <<lg_html, lg_word, lg_fallback, lg_result>>
    /\ UNCHANGED exceptLG

\* processLingueeHTML, lines 754-757: return tryFallbackProcessing(...)
ReturnFallback ==
    /\ lg_pc = "looped"
    /\ NeedsFallback(lg_primary)
    /\ lg_fallback' = TRUE
    /\ lg_result' = tryFallbackProcessing(lg_html, lg_word)
    /\ lg_pc' = "done"
    /\ UNCHANGED <<lg_html, lg_word, lg_primary>>
    /\ UNCHANGED exceptLG

\* processLingueeHTML, line 759: return result
ReturnPrimary ==
    /\ lg_pc = "looped"
    /\ ~NeedsFallback(lg_primary)
    /\ lg_result' = lg_primary
    /\ lg_pc' = "done"
    /\ UNCHANGED <<lg_html, lg_word, lg_primary, lg_fallback>>
    /\ UNCHANGED exceptLG

NextLG ==
    \/ PrimaryLoop
    \/ ReturnFallback
    \/ ReturnPrimary

(***************************************************************************)
(* WordReference audio links                                               *)
(*                                                                         *)
(* A URL or path is the sequence of its parts: the site's origin, the      *)
(* directory ("/audio/" or another one), a file name and the extension.    *)
(* The audio-related text of a page is its audioFiles object literal (if   *)
(* any: whether it is declared with var, and the values of its entries,    *)
(* one per key, in order) and the audio paths written elsewhere in the     *)
(* page, in src and href attributes, after the script.                     *)
(***************************************************************************)
\* most entries of the audioFiles literal
MaxEntries == 2
\* most audio paths outside the literal
MaxDirect == 1

Origin == "https://www.wordreference.com"

RelativeA == <<"/audio/", "a", ".mp3">>
RelativeB == <<"/audio/", "b", ".mp3">>
AbsoluteA == <<Origin, "/audio/", "a", ".mp3">>
OtherDirA == <<"/sound/", "a", ".mp3">>

MapValues == {RelativeA, RelativeB, AbsoluteA, OtherDirA}

\* [^}]+ needs a literal that is not empty
AudioMaps == UNION {[1..n -> MapValues] : n \in 1..MaxEntries}

AudioPages ==
    [hasMap : {FALSE}, hasVar : {FALSE}, entries : {<<>>},
     direct : SeqsUpTo({RelativeA, RelativeB}, MaxDirect)]
    \cup [hasMap : {TRUE}, hasVar : BOOLEAN, entries : AudioMaps,
          direct : SeqsUpTo({RelativeA, RelativeB}, MaxDirect)]

\* String.prototype.startsWith('/')
StartsWithSlash(value) == value # <<>> /\ value[1] \in {"/audio/", "/sound/"}

\* [^'"]*\/audio\/[^'"]*\.mp3 matches a quoted value
HasAudioPath(value) ==
    \E i \in 1..Len(value) : \E j \in (i + 1)..Len(value) :
        value[i] = "/audio/" /\ value[j] = ".mp3"

\* the match of /\/audio\/[^"'\s]+\.mp3/ in a value that has one: the text
\* from "/audio/" on
DirectMatch(value) ==
    LET i == CHOOSE k \in 1..Len(value) : value[k] = "/audio/"
    IN  SubSeq(value, i, Len(value))

\* `https://www.wordreference.com${value}`
WithOrigin(value) == <<Origin>> \o value

\* if (!list.includes(value)) list.push(value)
PushIfNew(list, value) ==
    IF \E i \in 1..Len(list) : list[i] = value THEN list
    ELSE Append(list, value)

RECURSIVE PushAllNew(_, _, _)
PushAllNew(list, values, i) ==
    IF i > Len(values) THEN list
    ELSE PushAllNew(PushIfNew(list, values[i]), values, i + 1)

\* wordreference.js, extractAudioFiles: the quoted values of the first
\* audioFiles literal that hold an audio path, quotes removed, each once
extractAudioFiles(html) ==
    IF ~html.hasMap THEN <<>>
    ELSE PushAllNew(<<>>, SelectSeq(html.entries, HasAudioPath), 1)

\* common.js lines 106-117: the values of the literal that start with "/",
\* each pushed with the origin in front
MapLinks(html) ==
    IF ~(html.hasMap /\ html.hasVar) THEN <<>>
    ELSE LET kept == SelectSeq(html.entries, StartsWithSlash)
         IN  [i \in 1..Len(kept) |-> WithOrigin(kept[i])]

\* common.js lines 120-127: every match of the direct pattern in the page,
\* in the literal or outside it, with the origin in front, pushed if new
DirectLinks(html) ==
    LET found == SelectSeq(html.entries \o html.direct, HasAudioPath)
    IN  [i \in 1..Len(found) |-> WithOrigin(DirectMatch(found[i]))]

\* common.js, AudioExtractor.extractWordReferenceAudio
extractWordReferenceAudio(html) ==
    PushAllNew(MapLinks(html), DirectLinks(html), 1)

IdleAudio ==
    /\ au_pc = "idle"
    /\ au_html = <<>>
    /\ au_links = <<>>
    /\ au_extracted = <<>>

StartAudio ==
    /\ au_pc = "start"
    /\ au_html \in AudioPages
    /\ au_links = <<>>
    /\ au_extracted = <<>>

\* processHTML, line 86: audioLinks: extractAudioFiles(html)
ExtractAudioFiles ==
    /\ au_pc = "start"
    /\ au_links' = extractAudioFiles(au_html)
    /\ au_pc' = "scraped"
    /\ UNCHANGED <<au_html, au_extracted>>
    /\ UNCHANGED exceptAudio

\* AudioExtractor.extractWordReferenceAudio(html) on the same page
ExtractWordReferenceAudio ==
    /\ au_pc = "scraped"
    /\ au_extracted' = extractWordReferenceAudio(au_html)
    /\ au_pc' = "extracted"
    /\ UNCHANGED <<au_html, au_links>>
    /\ UNCHANGED exceptAudio

NextAudio ==
    \/ ExtractAudioFiles
    \/ ExtractWordReferenceAudio

(***************************************************************************)
(* An extractor called twice on the same document and word                 *)
(*                                                                         *)
(* The whole object each extractor returns, every field of it.  The clock  *)
(* counts milliseconds from the start of a second and moves between the    *)
(* calls as it pleases.                                                    *)
(***************************************************************************)
\* the latest reading of the clock
MaxClock == 1

\* Date.prototype.toISOString for an instant of the first second of 1970:
\* the milliseconds as three digits between the fixed parts
ToISOString(ms) ==
    <<"1970-01-01T00:00:00.", (ms \div 100) % 10, (ms \div 10) % 10, ms % 10, "Z">>

\* the array of an earlier call kept and appended to
FreshList_Shared(earlier) == earlier

\* sections: [] and translations: [] in the object literal of a call: a
\* new array, whatever an earlier call left in its own
FreshList(earlier) == <<>>

\* wordreference.js lines 81-100: the object processHTML returns
processHTMLResult(html, inputWord, now, earlier) ==
    [inputWord |-> inputWord,
     sections |-> FreshList(earlier) \o processHTML(html.tables, inputWord).sections,
     audioLinks |-> extractAudioFiles(html.audio),
     source |-> "wordreference",
     timestamp |-> ToISOString(now)]

\* wordreference.js lines 665-760 and 764-814: the object processLingueeHTML
\* returns, its own or the one of tryFallbackProcessing
processLingueeHTML(html, inputWord, fromLang, toLang, earlier) ==
    LET primary == FreshList(earlier) \o PrimaryPass(html)
    IN  [source |-> "linguee",
         inputWord |-> inputWord,
         fromLang |-> fromLang,
         toLang |-> toLang,
         translations |->
             IF NeedsFallback(primary)
             THEN FreshList(earlier) \o tryFallbackProcessing(html, inputWord)
             ELSE primary]

NoAudio == [hasMap |-> FALSE, hasVar |-> FALSE, entries |-> <<>>, direct |-> <<>>]

\* pages for processHTML: without table, with a titled and an untitled table,
\* with and without an audioFiles literal
RepeatWRPages ==
    [tables : {<<>>,
               <<[titleRows |-> <<>>, rows |-> <<PlainWordRow>>]>>,
               <<[titleRows |-> <<<<" ", "T">>>>, rows |-> <<InlineExampleRow>>]>>},
     audio : {NoAudio,
              [hasMap |-> TRUE, hasVar |-> TRUE,
               entries |-> <<RelativeA, RelativeA>>, direct |-> <<>>]}]

\* pages for processLingueeHTML: empty, one lemma inside #dictionary, one
\* translation group that only the fallback pass reads
RepeatLingueePages ==
    {[hasDictionary |-> FALSE, inDictionary |-> <<>>, blocks |-> <<>>],
     [hasDictionary |-> TRUE, inDictionary |-> <<TRUE>>,
      blocks |-> <<[cls |-> "lemma", lemmaLinks |-> <<<<"a">>>>,
                    translations |-> <<<<"b">>>>, examples |-> <<>>]>>],
     [hasDictionary |-> FALSE, inDictionary |-> <<FALSE>>,
      blocks |-> <<[cls |-> "translation_group", lemmaLinks |-> <<>>,
                    translations |-> <<<<"a">>, <<"b">>>>, examples |-> <<>>]>>]}

\* the collection of the object an earlier call returned
Collection(fn, result) ==
    IF fn = "processHTML" THEN result.sections ELSE result.translations

Extraction(fn, html, inputWord, now, earlier) ==
    IF fn = "processHTML"
    THEN processHTMLResult(html, inputWord, now, earlier)
    ELSE processLingueeHTML(html, inputWord, "en", "es", earlier)

IdleRepeat ==
    /\ rp_pc = "idle"
    /\ rp_fn = "none"
    /\ rp_html = <<>>
    /\ rp_word = <<>>
    /\ rp_now = 0
    /\ rp_first = <<>>
    /\ rp_second = <<>>

StartRepeat ==
    /\ rp_pc = "start"
    /\ \/ rp_fn = "processHTML" /\ rp_html \in RepeatWRPages /\ rp_word \in WRWords
       \/ /\ rp_fn = "processLingueeHTML"
          /\ rp_html \in RepeatLingueePages
          /\ rp_word \in LingueeWords
    /\ rp_now = 0
    /\ rp_first = <<>>
    /\ rp_second = <<>>

\* the first call of the extractor
FirstExtraction ==
    /\ rp_pc = "start"
    /\ rp_first' = Extraction(rp_fn, rp_html, rp_word, rp_now, <<>>)
    /\ rp_pc' = "once"
    /\ UNCHANGED <<rp_fn, rp_html, rp_word, rp_now, rp_second>>
    /\ UNCHANGED exceptRepeat

\* time passes before or between the calls
ClockTick ==
    /\ rp_pc \in {"start", "once"}
    /\ rp_now < MaxClock
    /\ rp_now' = rp_now + 1
    /\ UNCHANGED <<rp_pc, rp_fn, rp_html, rp_word, rp_first, rp_second>>
    /\ UNCHANGED exceptRepeat

\* the second call, on the same document and word
SecondExtraction ==
    /\ rp_pc = "once"
    /\ rp_second' = Extraction(rp_fn, rp_html, rp_word, rp_now,
                               Collection(rp_fn, rp_first))
    /\ rp_pc' = "twice"
    /\ UNCHANGED <<rp_fn, rp_html, rp_word, rp_now, rp_first>>
    /\ UNCHANGED exceptRepeat

NextRepeat ==
    \/ FirstExtraction
    \/ ClockTick
    \/ SecondExtraction

(***************************************************************************)
(* Language codes and their validation (utils/common.js)                   *)
(*                                                                         *)
(* A language code is a string as above.  A message is a string too, its   *)
(* fixed parts written as one element each.  <<>> stands for null and for  *)
(* undefined.                                                              *)
(***************************************************************************)
\* LanguageCodes.codes, in the order of declaration (the native names are
\* read by no function modelled here)
codes == <<
    [code |-> <<"e","n">>, name |-> <<"E","n","g","l","i","s","h">>,
     long |-> <<"e","n","g","l","i","s","h">>],
    [code |-> <<"e","s">>, name |-> <<"S","p","a","n","i","s","h">>,
     long |-> <<"s","p","a","n","i","s","h">>],
    [code |-> <<"f","r">>, name |-> <<"F","r","e","n","c","h">>,
     long |-> <<"f","r","e","n","c","h">>],
    [code |-> <<"d","e">>, name |-> <<"G","e","r","m","a","n">>,
     long |-> <<"g","e","r","m","a","n">>],
    [code |-> <<"i","t">>, name |-> <<"I","t","a","l","i","a","n">>,
     long |-> <<"i","t","a","l","i","a","n">>],
    [code |-> <<"p","t">>, name |-> <<"P","o","r","t","u","g","u","e","s","e">>,
     long |-> <<"p","o","r","t","u","g","u","e","s","e">>],
    [code |-> <<"r","u">>, name |-> <<"R","u","s","s","i","a","n">>,
     long |-> <<"r","u","s","s","i","a","n">>],
    [code |-> <<"a","r">>, name |-> <<"A","r","a","b","i","c">>,
     long |-> <<"a","r","a","b","i","c">>],
    [code |-> <<"z","h">>, name |-> <<"C","h","i","n","e","s","e">>,
     long |-> <<"c","h","i","n","e","s","e">>],
    [code |-> <<"j","a">>, name |-> <<"J","a","p","a","n","e","s","e">>,
     long |-> <<"j","a","p","a","n","e","s","e">>],
    [code |-> <<"k","o">>, name |-> <<"K","o","r","e","a","n">>,
     long |-> <<"k","o","r","e","a","n">>],
    [code |-> <<"n","l">>, name |-> <<"D","u","t","c","h">>,
     long |-> <<"d","u","t","c","h">>],
    [code |-> <<"p","l">>, name |-> <<"P","o","l","i","s","h">>,
     long |-> <<"p","o","l","i","s","h">>],
    [code |-> <<"s","v">>, name |-> <<"S","w","e","d","i","s","h">>,
     long |-> <<"s","w","e","d","i","s","h">>],
    [code |-> <<"n","o">>, name |-> <<"N","o","r","w","e","g","i","a","n">>,
     long |-> <<"n","o","r","w","e","g","i","a","n">>],
    [code |-> <<"d","a">>, name |-> <<"D","a","n","i","s","h">>,
     long |-> <<"d","a","n","i","s","h">>],
    [code |-> <<"f","i">>, name |-> <<"F","i","n","n","i","s","h">>,
     long |-> <<"f","i","n","n","i","s","h">>],
    [code |-> <<"c","s">>, name |-> <<"C","z","e","c","h">>,
     long |-> <<"c","z","e","c","h">>],
    [code |-> <<"r","o">>, name |-> <<"R","o","m","a","n","i","a","n">>,
     long |-> <<"r","o","m","a","n","i","a","n">>],
    [code |-> <<"t","r">>, name |-> <<"T","u","r","k","i","s","h">>,
     long |-> <<"t","u","r","k","i","s","h">>],
    [code |-> <<"h","e">>, name |-> <<"H","e","b","r","e","w">>,
     long |-> <<"h","e","b","r","e","w">>],
    [code |-> <<"h","i">>, name |-> <<"H","i","n","d","i">>,
     long |-> <<"h","i","n","d","i">>],
    [code |-> <<"t","h">>, name |-> <<"T","h","a","i">>,
     long |-> <<"t","h","a","i">>],
    [code |-> <<"v","i">>, name |-> <<"V","i","e","t","n","a","m","e","s","e">>,
     long |-> <<"v","i","e","t","n","a","m","e","s","e">>],
    [code |-> <<"e","l">>, name |-> <<"G","r","e","e","k">>,
     long |-> <<"g","r","e","e","k">>],
    [code |-> <<"h","u">>, name |-> <<"H","u","n","g","a","r","i","a","n">>,
     long |-> <<"h","u","n","g","a","r","i","a","n">>],
    [code |-> <<"b","g">>, name |-> <<"B","u","l","g","a","r","i","a","n">>,
     long |-> <<"b","u","l","g","a","r","i","a","n">>],
    [code |-> <<"h","r">>, name |-> <<"C","r","o","a","t","i","a","n">>,
     long |-> <<"c","r","o","a","t","i","a","n">>],
    [code |-> <<"s","k">>, name |-> <<"S","l","o","v","a","k">>,
     long |-> <<"s","l","o","v","a","k">>],
    [code |-> <<"s","l">>, name |-> <<"S","l","o","v","e","n","i","a","n">>,
     long |-> <<"s","l","o","v","e","n","i","a","n">>],
    [code |-> <<"e","t">>, name |-> <<"E","s","t","o","n","i","a","n">>,
     long |-> <<"e","s","t","o","n","i","a","n">>],
    [code |-> <<"l","v">>, name |-> <<"L","a","t","v","i","a","n">>,
     long |-> <<"l","a","t","v","i","a","n">>],
    [code |-> <<"l","t">>, name |-> <<"L","i","t","h","u","a","n","i","a","n">>,
     long |-> <<"l","i","t","h","u","a","n","i","a","n">>],
    [code |-> <<"m","t">>, name |-> <<"M","a","l","t","e","s","e">>,
     long |-> <<"m","a","l","t","e","s","e">>]
>>

\* codes[key]: the entry of an own property, the object found on the
\* prototype chain, or undefined
PropertyOf(entries, key) ==
    IF \E i \in 1..Len(entries) : entries[i].code = key
    THEN entries[CHOOSE i \in 1..Len(entries) : entries[i].code = key]
    ELSE IF \E i \in 1..Len(InheritedProps) : InheritedProps[i][1] = key
         THEN InheritedProps[CHOOSE i \in 1..Len(InheritedProps) :
                                 InheritedProps[i][1] = key][2]
         ELSE <<>>

\* this.codes[key]
CodesGet(key) == PropertyOf(codes, key)

\* the entries of Object.entries whose key is the given one
OwnEntries(entries, key) == {i \in 1..Len(entries) : entries[i].code = key}

\* key is an own property of this.codes
IsOwnCode(key) == OwnEntries(codes, key) # {}

\* data.long === lowerCode || data.name.toLowerCase() === lowerCode
LongFormMatches(entries, lowerCode) ==
    {i \in 1..Len(entries) :
        entries[i].long = lowerCode \/ ToLowerCase(entries[i].name) = lowerCode}

\* the entries whose long form or lower-cased name is lowerCode
LongFormIndex(lowerCode) == LongFormMatches(codes, lowerCode)

\* the loop over Object.entries returns the key of the first match, null
\* when there is none
FirstShortCode(entries, matches) ==
    IF matches # {}
    THEN entries[CHOOSE i \in matches : \A j \in matches : i <= j].code
    ELSE <<>>

\* LanguageCodes.normalize after const lowerCode = code.toLowerCase()
NormalizeLower(lowerCode) ==
    IF CodesGet(lowerCode) # <<>> THEN lowerCode
    ELSE FirstShortCode(codes, LongFormIndex(lowerCode))

\* LanguageCodes.normalize
normalize(code) == NormalizeLower(ToLowerCase(code))

\* LanguageCodes.getName: this.codes[code]?.name || code; the name of the
\* function Object is "Object"
getName(code) ==
    IF IsOwnCode(code) THEN CodesGet(code).name
    ELSE IF code = <<"c","o","n","s","t","r","u","c","t","o","r">>
         THEN <<"O","b","j","e","c","t">>
         ELSE code

\* LanguageValidator.validatePair after the two calls of normalize
ValidatedPair(from, to, fromNormalized, toNormalized) ==
    IF fromNormalized = <<>>
    THEN [error |-> <<"Unsupported source language: ">> \o from
                    \o <<". Try using ISO codes like 'en', 'es', 'fr'">>]
    ELSE IF toNormalized = <<>>
         THEN [error |-> <<"Unsupported target language: ">> \o to
                         \o <<". Try using ISO codes like 'en', 'es', 'fr'">>]
         ELSE [error |-> <<>>,
               from |-> fromNormalized,
               to |-> toNormalized,
               fromName |-> getName(fromNormalized),
               toName |-> getName(toNormalized)]

\* LanguageValidator.validatePair
validatePair(from, to) == ValidatedPair(from, to, normalize(from), normalize(to))

\* the long name tried before the short code
getAlternatives_LongFirst(code) ==
    IF normalize(code) = <<>> THEN <<>>
    ELSE IF IsOwnCode(normalize(code))
         THEN <<CodesGet(normalize(code)).long, normalize(code)>>
         ELSE <<normalize(code)>>

\* LanguageValidator.getAlternatives after the call of normalize
AlternativesOf(normalized) ==
    IF normalized = <<>> THEN <<>>
    ELSE IF IsOwnCode(normalized)
         THEN <<normalized, CodesGet(normalized).long>>
         ELSE <<normalized>>

\* LanguageValidator.getAlternatives: the short code, then the long name if
\* the entry has one (no code equals its long name, so the Set keeps both)
getAlternatives(code) == AlternativesOf(normalize(code))

\* Array.prototype.includes
ListIncludes(list, x) == \E i \in 1..Len(list) : list[i] = x

\* DICTIONARIES.wordreference.languages
WordReferenceLanguages ==
    <<<<"e","n">>, <<"e","s">>, <<"f","r">>, <<"d","e">>, <<"i","t">>, <<"p","t">>, <<"r","u">>, <<"a","r">>,
     <<"z","h">>, <<"j","a">>, <<"k","o">>, <<"n","l">>, <<"s","v">>, <<"n","o">>, <<"d","a">>, <<"p","l">>,
     <<"c","s">>, <<"r","o">>, <<"t","r">>, <<"h","e">>, <<"h","i">>, <<"t","h">>, <<"v","i">>>>

\* DICTIONARIES.linguee.languages
LingueeLanguages ==
    <<<<"e","n">>, <<"e","s">>, <<"f","r">>, <<"d","e">>, <<"p","t">>, <<"i","t">>, <<"n","l">>, <<"p","l">>,
     <<"s","v">>, <<"d","a">>, <<"f","i">>, <<"e","l">>, <<"h","u">>, <<"s","l">>, <<"l","v">>, <<"l","t">>,
     <<"e","t">>, <<"m","t">>, <<"s","k">>, <<"b","g">>, <<"r","o">>, <<"h","r">>, <<"c","s">>>>

\* `${from}-${to}`
PairText(from, to) == from \o <<"-">> \o to

\* supportedPairs of isLanguagePairSupported
supportedPairs ==
    <<<<"e","n","-","e","s">>, <<"e","s","-","e","n">>, <<"e","n","-","f","r">>,
     <<"f","r","-","e","n">>, <<"e","n","-","d","e">>, <<"d","e","-","e","n">>,
     <<"e","n","-","p","t">>, <<"p","t","-","e","n">>, <<"e","n","-","i","t">>,
     <<"i","t","-","e","n">>, <<"f","r","-","e","s">>, <<"e","s","-","f","r">>,
     <<"d","e","-","e","s">>, <<"e","s","-","d","e">>, <<"d","e","-","f","r">>,
     <<"f","r","-","d","e">>>>

\* every pair of two recognised codes accepted
isLanguagePairSupported_Any(from, to) == TRUE

\* scrapers/linguee.js, isLanguagePairSupported
isLanguagePairSupported(from, to) ==
    ListIncludes(supportedPairs, PairText(from, to))

(***************************************************************************)
(* The scrape functions: scrapeWordReference and scrapeLinguee             *)
(*                                                                         *)
(* The call of a scrape function in progress is a record: its position,    *)
(* its arguments, the indices of the combination of alternatives under     *)
(* request, lastError, the URLs requested so far, the document last        *)
(* received and, once it has returned, the object returned.  The function  *)
(* runs from its call to its first await in one step, and from the         *)
(* settling of a request to the next await or to its return in one step.   *)
(***************************************************************************)
Dictionaries == {"wordreference", "linguee"}

\* encodeURIComponent: letters, digits and _ are kept, a space is escaped
EncodeChar(c) == IF c = " " THEN <<"%", "2", "0">> ELSE <<c>>

EncodeURIComponent(s) == Concat([i \in 1..Len(s) |-> EncodeChar(s[i])])

\* the object literal langNames of buildLingueeURL
langNames == <<
    <<<<"e","n">>, <<"e","n","g","l","i","s","h">>>>,
    <<<<"e","s">>, <<"s","p","a","n","i","s","h">>>>,
    <<<<"f","r">>, <<"f","r","e","n","c","h">>>>,
    <<<<"d","e">>, <<"g","e","r","m","a","n">>>>,
    <<<<"p","t">>, <<"p","o","r","t","u","g","u","e","s","e">>>>,
    <<<<"i","t">>, <<"i","t","a","l","i","a","n">>>>,
    <<<<"r","u">>, <<"r","u","s","s","i","a","n">>>>
>>

\* langNames[code] || code: the own property, the object found on the
\* prototype chain, or the code itself
LangName(code) ==
    IF \E i \in 1..Len(langNames) : langNames[i][1] = code
    THEN langNames[CHOOSE i \in 1..Len(langNames) : langNames[i][1] = code][2]
    ELSE IF \E i \in 1..Len(InheritedProps) : InheritedProps[i][1] = code
         THEN InheritedProps[CHOOSE i \in 1..Len(InheritedProps) :
                                 InheritedProps[i][1] = code][2]
         ELSE code

buildLingueeURL(word, from, to) ==
    <<"https://www.linguee.com/">> \o LangName(from) \o <<"-">> \o LangName(to)
        \o <<"/search?source=">> \o LangName(from) \o <<"&query=">>
        \o EncodeURIComponent(word)

\* wordreference.js line 39
wordReferenceURL(word, fromCode, toCode) ==
    <<"https://www.wordreference.com/">> \o fromCode \o toCode \o <<"/">>
        \o EncodeURIComponent(word)

RequestURL(d, word, fromCode, toCode) ==
    IF d = "wordreference" THEN wordReferenceURL(word, fromCode, toCode)
    ELSE buildLingueeURL(word, fromCode, toCode)

\* what RequestHandler.makeRequest resolves to: a page without result and a
\* page with one
FetchPages(d) ==
    IF d = "wordreference"
    THEN {[tables |-> <<>>, audio |-> NoAudio],
          [tables |-> <<[titleRows |-> <<>>, rows |-> <<PlainWordRow>>]>>,
           audio |-> NoAudio]}
    ELSE {[hasDictionary |-> FALSE, inDictionary |-> <<>>, blocks |-> <<>>],
          [hasDictionary |-> TRUE, inDictionary |-> <<TRUE>>,
           blocks |-> <<[cls |-> "lemma", lemmaLinks |-> <<<<"a">>>>,
                         translations |-> <<<<"b">>>>, examples |-> <<>>]>>]}

\* the messages of the errors RequestHandler.makeRequest rejects with
FetchErrors ==
    {<<"Request failed with status code 404">>,
     <<"timeout of 10000ms exceeded">>}

NoScrape ==
    [pc |-> "idle", word |-> <<>>, from |-> <<>>, to |-> <<>>,
     validation |-> <<>>, fromAlternatives |-> <<>>, toAlternatives |-> <<>>,
     i |-> 0, j |-> 0, lastError |-> <<>>, fetched |-> <<>>,
     html |-> <<>>, out |-> <<>>, ret |-> <<>>]

\* { ...object, ...more }
Spread(object, more) ==
    [f \in DOMAIN object \cup DOMAIN more |->
        IF f \in DOMAIN more THEN more[f] ELSE object[f]]

\* lines 15-24 and 585-595: the object returned when validation fails
ValidationFailure(d, word, from, to, error, now) ==
    IF d = "wordreference"
    THEN [inputWord |-> word, sections |-> <<>>, audioLinks |-> <<>>,
          source |-> "wordreference", timestamp |-> ToISOString(now),
          error |-> error]
    ELSE [source |-> "linguee", inputWord |-> word, fromLang |-> from,
          toLang |-> to, translations |-> <<>>, error |-> error,
          timestamp |-> ToISOString(now)]

\* fromAlternatives.flatMap(f => toAlternatives.map(t => `${f}-${t}`))
AttemptedLanguagePairs(fs, ts) ==
    [k \in 1..(Len(fs) * Len(ts)) |->
        PairText(fs[((k - 1) \div Len(ts)) + 1], ts[((k - 1) % Len(ts)) + 1])]

\* lastError?.message || `No translations found for "${word}" from ... to ...`
ExhaustedMessage(r) ==
    IF r.lastError # <<>> THEN r.lastError
    ELSE <<"No translations found for \"">> \o r.word \o <<"\" from ">>
            \o r.validation.fromName \o <<" to ">> \o r.validation.toName

\* lines 69-78 and 634-643: the object returned after the loops
Exhausted(d, r, now) ==
    IF d = "wordreference"
    THEN [inputWord |-> r.word, sections |-> <<>>, audioLinks |-> <<>>,
          source |-> "wordreference", timestamp |-> ToISOString(now),
          error |-> ExhaustedMessage(r),
          attemptedLanguagePairs |->
              AttemptedLanguagePairs(r.fromAlternatives, r.toAlternatives)]
    ELSE [source |-> "linguee", inputWord |-> r.word,
          fromLang |-> r.validation.from,
          toLang |-> r.validation.to,
          translations |-> <<>>,
          error |-> ExhaustedMessage(r),
          attemptedLanguagePairs |->
              AttemptedLanguagePairs(r.fromAlternatives, r.toAlternatives),
          timestamp |-> ToISOString(now)]

\* the request of the combination (i, j) issued: makeRequest(url, ...)
Request(d, r, i, j) ==
    [r EXCEPT !.pc = "fetching", !.i = i, !.j = j,
              !.fetched = Append(r.fetched,
                                 RequestURL(d, r.word, r.fromAlternatives[i],
                                            r.toAlternatives[j]))]

\* the loops never leaving the first source alternative
NextAttempt_InnerOnly(d, r, now) ==
    IF r.j < Len(r.toAlternatives) THEN Request(d, r, r.i, r.j + 1)
    ELSE [r EXCEPT !.pc = "done", !.out = Exhausted(d, r, now)]

\* for (const fromCode of fromAlternatives) for (const toCode of
\* toAlternatives): the iteration after (i, j), or the return after the loops
NextAttempt(d, r, now) ==
    IF r.j < Len(r.toAlternatives) THEN Request(d, r, r.i, r.j + 1)
    ELSE IF r.i < Len(r.fromAlternatives) THEN Request(d, r, r.i + 1, 1)
         ELSE [r EXCEPT !.pc = "done", !.out = Exhausted(d, r, now)]

\* the call of scrapeWordReference or scrapeLinguee up to its first await,
\* or to its return when validation fails
ScrapeValidated(d, r, now) ==
    IF r.validation.error # <<>>
    THEN [r EXCEPT !.pc = "done",
                   !.out = ValidationFailure(d, r.word, r.from, r.to,
                                             r.validation.error, now)]
    ELSE Request(d, [r EXCEPT !.fromAlternatives = getAlternatives(r.from),
                              !.toAlternatives = getAlternatives(r.to)], 1, 1)

\* scrapeWordReference(word, from, to) or scrapeLinguee(word, from, to):
\* const validation = LanguageValidator.validatePair(from, to), then the rest
ScrapeCall(d, word, from, to, now) ==
    ScrapeValidated(d, [NoScrape EXCEPT !.word = word, !.from = from, !.to = to,
                                        !.validation = validatePair(from, to)],
                    now)

\* processHTML(html, word) or processLingueeHTML(html, word, normalizedFrom,
\* normalizedTo)
Extracted(d, r, html, now) ==
    IF d = "wordreference" THEN processHTMLResult(html, r.word, now, <<>>)
    ELSE processLingueeHTML(html, r.word, r.validation.from, r.validation.to,
                            <<>>)

\* result.sections && result.sections.length > 0 (translations for Linguee)
IsValidResult(d, result) ==
    IF d = "wordreference" THEN Len(result.sections) > 0
    ELSE Len(result.translations) > 0

\* lines 54-59 and 614-620: the object returned from inside the loops
Found(d, r, result) ==
    LET fromCode == r.fromAlternatives[r.i]
        toCode == r.toAlternatives[r.j]
        more == [languagePair |-> PairText(fromCode, toCode),
                 normalizedFrom |-> r.validation.from,
                 normalizedTo |-> r.validation.to]
    IN  IF d = "wordreference" THEN Spread(result, more)
        ELSE Spread(Spread(result, more),
                    [url |-> RequestURL(d, r.word, fromCode, toCode)])

\* lines 53-60 and 613-621: the extracted result returned when it is valid,
\* the next iteration otherwise
Checked(d, r, result, now) ==
    IF IsValidResult(d, result)
    THEN [r EXCEPT !.pc = "done", !.out = Found(d, r, result)]
    ELSE NextAttempt(d, r, now)

\* the await of makeRequest resolves with html: the rest of the iteration
Resolved(d, r, html, now) == Checked(d, [r EXCEPT !.html = html],
                                     Extracted(d, r, html, now), now)

\* the rejection leaving the function, no catch block around the request
Rejected_Rethrown(d, r, message, now) ==
    [r EXCEPT !.pc = "threw", !.ret = message]

\* the await of makeRequest rejects: the catch block, then the next iteration
Rejected(d, r, message, now) ==
    NextAttempt(d, [r EXCEPT !.lastError = message], now)

(***************************************************************************)
(* The exported functions (index.js) and their callers                     *)
(***************************************************************************)
ScrapeFunctions == {"scrapeWordReference", "scrapeLinguee"}

LookupFunctions ==
    {"translateWithWordReference", "translateWithLinguee", "translateWith"}

ApiFunctions ==
    ScrapeFunctions \cup LookupFunctions \cup {"translate", "checkLanguageSupport"}

ApiWords == {<<"w">>, <<"a", " ", "b">>}

\* a short code, a name in capitals, a code no pair of Linguee has, a code
\* no dictionary has, a string that is no code, and a property name of
\* Object.prototype
FromInputs ==
    {<<"e","n">>, <<"E","n","g","l","i","s","h">>, <<"j","a">>, <<"f","i">>,
     <<"x","x">>, <<"c","o","n","s","t","r","u","c","t","o","r">>}

\* a short code and a string that is no code
ToInputs == {<<"e","s">>, <<"x","x">>}

DictionaryInputs ==
    {<<"w","o","r","d","r","e","f","e","r","e","n","c","e">>, <<"W","R">>,
     <<"l","g">>, <<"c","a","m","b","r","i","d","g","e">>}

\* the switch of translateWith on dictionary.toLowerCase()
SwitchDictionary(dictionary) ==
    LET name == ToLowerCase(dictionary)
    IN  IF name \in {<<"w","o","r","d","r","e","f","e","r","e","n","c","e">>, <<"w","r">>}
        THEN "wordreference"
        ELSE IF name \in {<<"l","i","n","g","u","e","e">>, <<"l","g">>}
             THEN "linguee"
             ELSE "default"

\* translateWithWordReference / translateWithLinguee up to the first await:
\* the message of the error thrown, or the call of the scrape function
LookupValidated(d, word, validation, now) ==
    IF validation.error # <<>>
    THEN [thrown |-> validation.error]
    ELSE IF d = "linguee" /\ ~isLanguagePairSupported(validation.from, validation.to)
         THEN [thrown |-> <<"Language pair ">>
                          \o PairText(validation.from, validation.to)
                          \o <<" not supported by Linguee">>]
         ELSE [thrown |-> <<>>,
               scrape |-> ScrapeCall(d, word, validation.from, validation.to, now)]

\* translateWithWordReference(word, from, to) or translateWithLinguee(word,
\* from, to): const validation = LanguageValidator.validatePair(from, to),
\* then the rest
LookupCall(d, word, from, to, now) ==
    LookupValidated(d, word, validatePair(from, to), now)

\* the promise a caller of LookupCall holds
Started(call) ==
    IF call.thrown # <<>>
    THEN [NoScrape EXCEPT !.pc = "threw", !.ret = call.thrown]
    ELSE call.scrape

\* checkLanguageSupport: the array supportedBy after the two if statements
SupportedBy(from, to) ==
    (IF ListIncludes(WordReferenceLanguages, from)
           /\ ListIncludes(WordReferenceLanguages, to)
     THEN <<"wordreference">> ELSE <<>>)
    \o (IF isLanguagePairSupported(from, to) THEN <<"linguee">> ELSE <<>>)

\* every dictionary asked, whatever the pair
Asked_All(from, to) == Dictionaries

\* translate, lines 150-151 and 160: the dictionaries asked
Asked(from, to) ==
    {d \in Dictionaries :
        IF d = "wordreference"
        THEN ListIncludes(WordReferenceLanguages, from)
                /\ ListIncludes(WordReferenceLanguages, to)
        ELSE isLanguagePairSupported(from, to)}

\* checkLanguageSupport after the call of validatePair
SupportOf(validation) ==
    IF validation.error # <<>>
    THEN [supported |-> FALSE, error |-> validation.error]
    ELSE [supported |-> Len(SupportedBy(validation.from, validation.to)) > 0,
          supportedBy |-> SupportedBy(validation.from, validation.to),
          normalizedFrom |-> validation.from,
          normalizedTo |-> validation.to]

\* checkLanguageSupport(from, to)
checkLanguageSupport(from, to) == SupportOf(validatePair(from, to))

\* every response recorded under the key of the first dictionary
ResponseKey_First(d) == "wordreference"

\* the property dictionary of the value a promise of translate resolves to
ResponseKey(d) == d

\* error ? { error } : result
ResponseValue(r) == IF r.pc = "threw" THEN [error |-> r.ret] ELSE r.ret

\* responses.forEach of translate, in the order of the promises
Record(dictionaries, d, r) ==
    IF r.pc = "idle" THEN dictionaries
    ELSE Spread(dictionaries, [k \in {ResponseKey(d)} |-> ResponseValue(r)])

IdleApi ==
    /\ api_pc = "idle"
    /\ api_fn = "none"
    /\ api_word = <<>>
    /\ api_from = <<>>
    /\ api_to = <<>>
    /\ api_dict = <<>>
    /\ api_now = 0
    /\ api_out = <<>>
    /\ sc = [d \in Dictionaries |-> NoScrape]

StartApi ==
    /\ api_pc = "called"
    /\ api_fn \in ApiFunctions
    /\ api_word \in ApiWords
    /\ api_from \in FromInputs
    /\ api_to \in ToInputs
    /\ IF api_fn = "translateWith" THEN api_dict \in DictionaryInputs
       ELSE api_dict = <<>>
    /\ api_now = 0
    /\ api_out = <<>>
    /\ sc = [d \in Dictionaries |-> NoScrape]

\* the call of a scrape function by a caller outside the module
CallScrape(d) ==
    /\ api_pc = "called"
    /\ sc' = [sc EXCEPT ![d] = ScrapeCall(d, api_word, api_from, api_to, api_now)]
    /\ api_pc' = "waiting"
    /\ UNCHANGED <<api_fn, api_word, api_from, api_to, api_dict, api_now, api_out>>
    /\ UNCHANGED exceptApi

\* scrapeWordReference(word, from, to)
ScrapeWordReference ==
    /\ api_fn = "scrapeWordReference"
    /\ CallScrape("wordreference")

\* scrapeLinguee(word, from, to)
ScrapeLinguee ==
    /\ api_fn = "scrapeLinguee"
    /\ CallScrape("linguee")

\* the call of translateWithWordReference or translateWithLinguee: it throws
\* or awaits its scrape function
CallLookup(d) ==
    /\ api_pc = "called"
    /\ \E call \in {LookupCall(d, api_word, api_from, api_to, api_now)} :
           IF call.thrown # <<>>
           THEN /\ api_pc' = "rejected"
                /\ api_out' = [thrown |-> call.thrown]
                /\ UNCHANGED sc
           ELSE /\ api_pc' = "waiting"
                /\ sc' = [sc EXCEPT ![d] = call.scrape]
                /\ UNCHANGED api_out
    /\ UNCHANGED <<api_fn, api_word, api_from, api_to, api_dict, api_now>>
    /\ UNCHANGED exceptApi

\* translateWithWordReference(word, from, to)
TranslateWithWordReference ==
    /\ api_fn = "translateWithWordReference"
    /\ CallLookup("wordreference")

\* translateWithLinguee(word, from, to)
TranslateWithLinguee ==
    /\ api_fn = "translateWithLinguee"
    /\ CallLookup("linguee")

\* translateWith(dictionary, word, from, to)
TranslateWith ==
    /\ api_fn = "translateWith"
    /\ IF SwitchDictionary(api_dict) = "default"
       THEN /\ api_pc = "called"
            /\ api_pc' = "rejected"
            /\ api_out' = [thrown |-> <<"Dictionary \"">> \o api_dict
                              \o <<"\" not supported. Available: wordreference, linguee">>]
            /\ UNCHANGED <<api_fn, api_word, api_from, api_to, api_dict, api_now, sc>>
            /\ UNCHANGED exceptApi
       ELSE CallLookup(SwitchDictionary(api_dict))

\* translate(word, from, to) up to await Promise.allSettled(promises)
Translate ==
    /\ api_fn = "translate"
    /\ api_pc = "called"
    /\ \E validation \in {validatePair(api_from, api_to)} :
           IF validation.error # <<>>
           THEN /\ api_pc' = "rejected"
                /\ api_out' = [thrown |-> validation.error]
                /\ UNCHANGED sc
           ELSE IF Asked(validation.from, validation.to) = {}
                THEN /\ api_pc' = "rejected"
                     /\ api_out' =
                            [thrown |-> <<"No dictionaries support the language pair ">>
                                        \o PairText(validation.from, validation.to)]
                     /\ UNCHANGED sc
                ELSE /\ api_pc' = "waiting"
                     /\ api_out' = [inputWord |-> api_word,
                                    fromLang |-> validation.from,
                                    toLang |-> validation.to,
                                    fromName |-> validation.fromName,
                                    toName |-> validation.toName,
                                    dictionaries |-> <<>>,
                                    timestamp |-> ToISOString(api_now)]
                     /\ sc' = [d \in Dictionaries |->
                                 IF d \in Asked(validation.from, validation.to)
                                 THEN Started(LookupCall(d, api_word, validation.from,
                                                         validation.to, api_now))
                                 ELSE NoScrape]
    /\ UNCHANGED <<api_fn, api_word, api_from, api_to, api_dict, api_now>>
    /\ UNCHANGED exceptApi

\* checkLanguageSupport(from, to), which awaits nothing
CheckLanguageSupport ==
    /\ api_fn = "checkLanguageSupport"
    /\ api_pc = "called"
    /\ api_out' = checkLanguageSupport(api_from, api_to)
    /\ api_pc' = "resolved"
    /\ UNCHANGED <<api_fn, api_word, api_from, api_to, api_dict, api_now, sc>>
    /\ UNCHANGED exceptApi

\* RequestHandler.makeRequest resolves with a document
FetchResolves(d) ==
    /\ sc[d].pc = "fetching"
    /\ \E html \in FetchPages(d) :
           sc' = [sc EXCEPT ![d] = Resolved(d, sc[d], html, api_now)]
    /\ UNCHANGED <<api_pc, api_fn, api_word, api_from, api_to, api_dict, api_now,
                   api_out>>
    /\ UNCHANGED exceptApi

\* RequestHandler.makeRequest rejects
FetchRejects(d) ==
    /\ sc[d].pc = "fetching"
    /\ \E message \in FetchErrors :
           sc' = [sc EXCEPT ![d] = Rejected(d, sc[d], message, api_now)]
    /\ UNCHANGED <<api_pc, api_fn, api_word, api_from, api_to, api_dict, api_now,
                   api_out>>
    /\ UNCHANGED exceptApi

\* translateWithWordReference / translateWithLinguee after the await of the
\* scrape function: { ...result, source, timestamp }
LookupReturns(d) ==
    /\ api_fn \in LookupFunctions \cup {"translate"}
    /\ sc[d].pc = "done"
    /\ sc' = [sc EXCEPT ![d].pc = "returned",
                        ![d].ret = Spread(sc[d].out,
                                          [source |-> d,
                                           timestamp |-> ToISOString(api_now)])]
    /\ UNCHANGED <<api_pc, api_fn, api_word, api_from, api_to, api_dict, api_now,
                   api_out>>
    /\ UNCHANGED exceptApi

\* the promise of a scrape function called from outside resolves
ScrapeSettles(d) ==
    /\ api_fn \in ScrapeFunctions
    /\ api_pc = "waiting"
    /\ sc[d].pc = "done"
    /\ api_out' = sc[d].out
    /\ api_pc' = "resolved"
    /\ UNCHANGED <<api_fn, api_word, api_from, api_to, api_dict, api_now, sc>>
    /\ UNCHANGED exceptApi

\* the promise of translateWith, translateWithWordReference or
\* translateWithLinguee resolves
LookupSettles(d) ==
    /\ api_fn \in LookupFunctions
    /\ api_pc = "waiting"
    /\ sc[d].pc = "returned"
    /\ api_out' = sc[d].ret
    /\ api_pc' = "resolved"
    /\ UNCHANGED <<api_fn, api_word, api_from, api_to, api_dict, api_now, sc>>
    /\ UNCHANGED exceptApi

\* translate after await Promise.allSettled(promises): lines 174-181
TranslateSettles ==
    /\ api_fn = "translate"
    /\ api_pc = "waiting"
    /\ \A d \in Dictionaries : sc[d].pc \in {"idle", "returned", "threw"}
    /\ api_out' =
          [api_out EXCEPT !.dictionaries =
              Record(Record(<<>>, "wordreference", sc["wordreference"]),
                     "linguee", sc["linguee"])]
    /\ api_pc' = "resolved"
    /\ UNCHANGED <<api_fn, api_word, api_from, api_to, api_dict, api_now, sc>>
    /\ UNCHANGED exceptApi

\* time passes while the call is in progress
ApiClockTick ==
    /\ api_pc \in {"called", "waiting"}
    /\ api_now < MaxClock
    /\ api_now' = api_now + 1
    /\ UNCHANGED <<api_pc, api_fn, api_word, api_from, api_to, api_dict, api_out, sc>>
    /\ UNCHANGED exceptApi

NextApi ==
    \/ ScrapeWordReference
    \/ ScrapeLinguee
    \/ TranslateWithWordReference
    \/ TranslateWithLinguee
    \/ TranslateWith
    \/ Translate
    \/ CheckLanguageSupport
    \/ \E d \in Dictionaries : FetchResolves(d)
    \/ \E d \in Dictionaries : FetchRejects(d)
    \/ \E d \in Dictionaries : LookupReturns(d)
    \/ \E d \in Dictionaries : ScrapeSettles(d)
    \/ \E d \in Dictionaries : LookupSettles(d)
    \/ TranslateSettles
    \/ ApiClockTick

(***************************************************************************)
(* MultiDictionaryScraper.translate (the class of DICTIONARY_FORMATS.md)   *)
(*                                                                         *)
(* translate reaches the scrape function through the scraper property of   *)
(* the registry entry and sees a promise: one that resolves with a result  *)
(* of the scrape function or rejects with an error.                        *)
(***************************************************************************)
\* the keys of this.dictionaries
RegisteredKeys == {"wordreference", "linguee"}

\* this.dictionaries[dictionaryKey]: an entry, an object found on the
\* prototype chain, or undefined
DictionariesGet(key) ==
    IF key \in RegisteredKeys THEN "entry"
    ELSE IF key \in {"constructor", "__proto__"} THEN "inherited"
         ELSE "undefined"

\* dict.languages of an entry
DictLanguages(key) ==
    IF key = "wordreference" THEN WordReferenceLanguages ELSE LingueeLanguages

\* the validator never refusing a pair
ValidatorRefuses_Never(key, from, to) == FALSE

\* dict.validator && !dict.validator(from, to): linguee alone has a validator
ValidatorRefuses(key, from, to) ==
    key = "linguee" /\ ~isLanguagePairSupported(from, to)

\* !dict.languages.includes(from) || !dict.languages.includes(to)
LanguagesMissing(key, from, to) ==
    ~ListIncludes(DictLanguages(key), from) \/ ~ListIncludes(DictLanguages(key), to)

\* lines 334-347: the message of the error thrown before the scraper is
\* called, <<>> when none is; an object of the prototype chain has no
\* languages property
CheckFailure(key, from, to) ==
    IF DictionariesGet(key) = "undefined"
    THEN <<"Dictionary \"", key, "\" not available. Available: wordreference, linguee">>
    ELSE IF DictionariesGet(key) = "inherited"
         THEN <<"Cannot read properties of undefined (reading 'includes')">>
         ELSE IF ValidatorRefuses(key, from, to) \/ LanguagesMissing(key, from, to)
              THEN <<"Language pair ">> \o PairText(from, to)
                       \o <<" not supported by ", key>>
              ELSE <<>>

\* a scrape function called and its requests rejected until it returns
RECURSIVE Drained(_, _, _, _)
Drained(d, r, message, now) ==
    IF r.pc = "fetching" THEN Drained(d, Rejected(d, r, message, now), message, now)
    ELSE r

\* objects the scrape function of an entry resolves with: the result of a
\* first request answered with a page, and the error result after every
\* request was rejected
ScraperResults(key, word, from, to, now) ==
    LET start == ScrapeCall(key, word, from, to, now)
        ends == {Resolved(key, start, html, now) : html \in FetchPages(key)}
                    \cup {Drained(key, start, message, now) : message \in FetchErrors}
    IN  {r.out : r \in {e \in ends : e.pc = "done"}}

MultiKeys == {"wordreference", "linguee", "cambridge", "constructor"}

\* a code both dictionaries list, one Linguee lists without a pair with es,
\* one WordReference alone lists, a string that is no code
MultiFrom == {<<"e","n">>, <<"n","l">>, <<"j","a">>, <<"x","x">>}

\* a code both list, one the validator of Linguee accepts after en although
\* Linguee does not list it, a string that is no code
MultiTo == {<<"e","s">>, <<"r","u">>, <<"x","x">>}

IdleMulti ==
    /\ md_pc = "idle"
    /\ md_key = "none"
    /\ md_word = <<>>
    /\ md_from = <<>>
    /\ md_to = <<>>
    /\ md_now = 0
    /\ md_calls = <<>>
    /\ md_caught = <<>>
    /\ md_out = <<>>

StartMulti ==
    /\ md_pc = "called"
    /\ md_key \in MultiKeys
    /\ md_word \in ApiWords
    /\ md_from \in MultiFrom
    /\ md_to \in MultiTo
    /\ md_now = 0
    /\ md_calls = <<>>
    /\ md_caught = <<>>
    /\ md_out = <<>>

\* translate(dictionaryKey, word, from, to) up to await dict.scraper(...)
MultiTranslate ==
    /\ md_pc = "called"
    /\ IF CheckFailure(md_key, md_from, md_to) # <<>>
       THEN /\ md_pc' = "rejected"
            /\ md_out' = [thrown |-> CheckFailure(md_key, md_from, md_to)]
            /\ UNCHANGED md_calls
       ELSE /\ md_pc' = "awaiting"
            /\ md_calls' = Append(md_calls, <<md_key, md_word, md_from, md_to>>)
            /\ UNCHANGED md_out
    /\ UNCHANGED <<md_key, md_word, md_from, md_to, md_now, md_caught>>
    /\ UNCHANGED exceptMulti

\* lines 350-355: the scraper resolves; { ...result, source, timestamp }
ScraperResolves ==
    /\ md_pc = "awaiting"
    /\ \E result \in ScraperResults(md_key, md_word, md_from, md_to, md_now) :
           md_out' = Spread(result, [source |-> md_key,
                                     timestamp |-> ToISOString(md_now)])
    /\ md_pc' = "resolved"
    /\ UNCHANGED <<md_key, md_word, md_from, md_to, md_now, md_calls, md_caught>>
    /\ UNCHANGED exceptMulti

\* lines 356-365: the object the catch block returns
Caught(key, word, from, to, message, now) ==
    [source |-> key, inputWord |-> word, fromLang |-> from, toLang |-> to,
     error |-> message, timestamp |-> ToISOString(now)]

\* lines 356-365: the scraper rejects
ScraperRejects ==
    /\ md_pc = "awaiting"
    /\ \E message \in FetchErrors :
           /\ md_caught' = message
           /\ md_out' = Caught(md_key, md_word, md_from, md_to, message, md_now)
    /\ md_pc' = "resolved"
    /\ UNCHANGED <<md_key, md_word, md_from, md_to, md_now, md_calls>>
    /\ UNCHANGED exceptMulti

\* time passes while the call is in progress
MultiClockTick ==
    /\ md_pc \in {"called", "awaiting"}
    /\ md_now < MaxClock
    /\ md_now' = md_now + 1
    /\ UNCHANGED <<md_pc, md_key, md_word, md_from, md_to, md_calls, md_caught,
                   md_out>>
    /\ UNCHANGED exceptMulti

NextMulti ==
    \/ MultiTranslate
    \/ ScraperResolves
    \/ ScraperRejects
    \/ MultiClockTick

(***************************************************************************)
(* MultiDictionaryScraper.translateAuto                                    *)
(***************************************************************************)
\* Object.entries(this.dictionaries): the keys in insertion order
DictionaryEntries == <<"wordreference", "linguee">>

\* dict.priority of an entry
DictPriority(key) == IF key = "wordreference" THEN 1 ELSE 2

\* the comparison with its operands exchanged
ComparePriority_Reversed(a, b) == DictPriority(b) - DictPriority(a)

\* (a, b) => a.priority - b.priority
ComparePriority(a, b) == DictPriority(a) - DictPriority(b)

\* isLanguageSupported && isValidatorPassed
IsCompatible(key, from, to) ==
    ~LanguagesMissing(key, from, to) /\ ~ValidatorRefuses(key, from, to)

\* Array.prototype.sort, which is stable: key put after the items that do
\* not compare greater
RECURSIVE InsertSorted(_, _)
InsertSorted(sorted, key) ==
    IF sorted = <<>> THEN <<key>>
    ELSE IF ComparePriority(Head(sorted), key) > 0 THEN <<key>> \o sorted
         ELSE <<Head(sorted)>> \o InsertSorted(Tail(sorted), key)

RECURSIVE SortByPriority(_)
SortByPriority(list) ==
    IF list = <<>> THEN <<>>
    ELSE InsertSorted(SortByPriority(SubSeq(list, 1, Len(list) - 1)),
                      list[Len(list)])

\* getCompatibleDictionaries(from, to)
getCompatibleDictionaries(from, to) ==
    SortByPriority(SelectSeq(DictionaryEntries,
                             LAMBDA key : IsCompatible(key, from, to)))

\* the for loop of translateAuto from index i on: the index of the first
\* dictionary whose this.translate reaches its scraper (a throw of
\* this.translate is caught and the loop goes on), Len(list) + 1 if none
RECURSIVE FirstAwaited(_, _, _, _)
FirstAwaited(list, i, from, to) ==
    IF i > Len(list) THEN i
    ELSE IF CheckFailure(list[i], from, to) # <<>>
         THEN FirstAwaited(list, i + 1, from, to)
         ELSE i

\* !result.error is false
HasTruthyError(result) == "error" \in DOMAIN result /\ result.error # <<>>

IdleAuto ==
    /\ ta_pc = "idle"
    /\ ta_word = <<>>
    /\ ta_from = <<>>
    /\ ta_to = <<>>
    /\ ta_now = 0
    /\ ta_dicts = <<>>
    /\ ta_i = 0
    /\ ta_calls = <<>>
    /\ ta_results = <<>>
    /\ ta_out = <<>>

StartAuto ==
    /\ ta_pc = "called"
    /\ ta_word \in ApiWords
    /\ ta_from \in MultiFrom
    /\ ta_to \in MultiTo
    /\ ta_now = 0
    /\ ta_dicts = <<>>
    /\ ta_i = 0
    /\ ta_calls = <<>>
    /\ ta_results = <<>>
    /\ ta_out = <<>>

\* the loop of translateAuto entered at index i of list: the next await of
\* a scraper, or the throw after the loop
AutoLoop(list, i) ==
    IF i > Len(list)
    THEN /\ ta_pc' = "rejected"
         /\ ta_out' = [thrown |-> <<"All dictionaries failed to translate \"">>
                                   \o ta_word \o <<"\" from ">> \o ta_from
                                   \o <<" to ">> \o ta_to]
         /\ UNCHANGED <<ta_i, ta_calls>>
    ELSE /\ ta_pc' = "awaiting"
         /\ ta_i' = i
         /\ ta_calls' = Append(ta_calls, list[i])
         /\ UNCHANGED ta_out

\* translateAuto(word, from, to) up to its first await
TranslateAuto ==
    /\ ta_pc = "called"
    /\ \E compatibleDicts \in {getCompatibleDictionaries(ta_from, ta_to)} :
           /\ ta_dicts' = compatibleDicts
           /\ IF Len(compatibleDicts) = 0
              THEN /\ ta_pc' = "rejected"
                   /\ ta_out' = [thrown |-> <<"No compatible dictionaries found for ">>
                                             \o PairText(ta_from, ta_to)]
                   /\ UNCHANGED <<ta_i, ta_calls>>
              ELSE AutoLoop(compatibleDicts,
                            FirstAwaited(compatibleDicts, 1, ta_from, ta_to))
    /\ UNCHANGED <<ta_word, ta_from, ta_to, ta_now, ta_results>>
    /\ UNCHANGED exceptAuto

\* this.translate resolved with result: return it, or go on with the loop
AutoResult(result) ==
    /\ ta_results' = Append(ta_results, result)
    /\ IF ~HasTruthyError(result)
       THEN /\ ta_pc' = "resolved"
            /\ ta_out' = result
            /\ UNCHANGED <<ta_i, ta_calls>>
       ELSE AutoLoop(ta_dicts, FirstAwaited(ta_dicts, ta_i + 1, ta_from, ta_to))
    /\ UNCHANGED <<ta_word, ta_from, ta_to, ta_now, ta_dicts>>
    /\ UNCHANGED exceptAuto

\* the scraper awaited by this.translate resolves
AutoScraperResolves ==
    /\ ta_pc = "awaiting"
    /\ \E result \in ScraperResults(ta_dicts[ta_i], ta_word, ta_from, ta_to, ta_now) :
           AutoResult(Spread(result, [source |-> ta_dicts[ta_i],
                                      timestamp |-> ToISOString(ta_now)]))

\* the scraper awaited by this.translate rejects
AutoScraperRejects ==
    /\ ta_pc = "awaiting"
    /\ \E message \in FetchErrors :
           AutoResult(Caught(ta_dicts[ta_i], ta_word, ta_from, ta_to, message,
                             ta_now))

\* time passes while the call is in progress
AutoClockTick ==
    /\ ta_pc \in {"called", "awaiting"}
    /\ ta_now < MaxClock
    /\ ta_now' = ta_now + 1
    /\ UNCHANGED <<ta_pc, ta_word, ta_from, ta_to, ta_dicts, ta_i, ta_calls,
                   ta_results, ta_out>>
    /\ UNCHANGED exceptAuto

NextAuto ==
    \/ TranslateAuto
    \/ AutoScraperResolves
    \/ AutoScraperRejects
    \/ AutoClockTick

(***************************************************************************)
(* RequestHandler (utils/common.js)                                        *)
(*                                                                         *)
(* response.data is [type |-> "string", text], [type |-> "object",         *)
(* contents, data] with <<>> for a missing property, or [type |-> "null"]. *)
(***************************************************************************)
CORS_PROXIES ==
    <<<<"https://api.allorigins.win/get?url=">>,
      <<"https://corsproxy.io/?">>,
      <<"https://cors-anywhere.herokuapp.com/">>,
      <<"https://thingproxy.freeboard.io/fetch/">>>>

RequestUrls == {<<"u">>, <<"u", " ", "w">>}

\* error.message of a rejected axios.get
RequestErrors ==
    {<<"N","e","t","w","o","r","k"," ","E","r","r","o","r">>,
     <<"R","e","q","u","e","s","t"," ","f","a","i","l","e","d"," ","w","i","t","h"," ","s","t","a","t","u","s"," ","c","o","d","e"," ","4","0","4">>,
     <<"B","l","o","c","k","e","d"," ","b","y"," ","C","O","R","S"," ","p","o","l","i","c","y">>}

PageText == <<"<", "p", ">">>

\* response.data of a resolved axios.get
ResponseData ==
    {[type |-> "string", text |-> PageText],
     [type |-> "object", contents |-> PageText, data |-> <<>>],
     [type |-> "object", contents |-> <<>>, data |-> PageText],
     [type |-> "object", contents |-> <<>>, data |-> <<>>],
     [type |-> "null"]}

\* RequestHandler.isCorsError
isCorsError(message) ==
    \/ Includes(ToLowerCase(message), <<"c","o","r","s">>)
    \/ Includes(ToLowerCase(message), <<"c","r","o","s","s","-","o","r","i","g","i","n">>)
    \/ Includes(ToLowerCase(message), <<"n","e","t","w","o","r","k"," ","e","r","r","o","r">>)
    \/ Includes(ToLowerCase(message), <<"b","l","o","c","k","e","d">>)

\* the proxies tried whatever the failure and the environment
UsesProxy_Always(message, browser) == TRUE

\* this.isCorsError(error) || this.isBrowser()
UsesProxy(message, browser) == isCorsError(message) \/ browser

\* lines 386-394: what the try block of requestWithProxy does with
\* response.data: the value returned, or the message of the TypeError of a
\* property read on null
ProxyBody(data) ==
    IF data.type = "string" THEN [thrown |-> <<>>, value |-> data.text]
    ELSE IF data.type = "null"
         THEN [thrown |-> <<"Cannot read properties of null (reading 'contents')">>]
         ELSE IF data.contents # <<>> THEN [thrown |-> <<>>, value |-> data.contents]
              ELSE IF data.data # <<>> THEN [thrown |-> <<>>, value |-> data.data]
                   ELSE [thrown |-> <<>>, value |-> data]

\* the catch block leaving errors as it is
Recorded_Dropped(errors, proxy, message) == errors

\* errors.push(`${proxy}: ${error.message}`)
Recorded(errors, proxy, message) == Append(errors, proxy \o <<":", " ">> \o message)

\* errors.join(', ')
RECURSIVE JoinErrors(_)
JoinErrors(errors) ==
    IF errors = <<>> THEN <<>>
    ELSE IF Len(errors) = 1 THEN errors[1]
         ELSE errors[1] \o <<",", " ">> \o JoinErrors(Tail(errors))

IdleRequest ==
    /\ rq_pc = "idle"
    /\ rq_fn = "none"
    /\ rq_url = <<>>
    /\ rq_browser = FALSE
    /\ rq_i = 0
    /\ rq_log = <<>>
    /\ rq_answers = <<>>
    /\ rq_errors = <<>>
    /\ rq_out = <<>>

StartRequest ==
    /\ rq_pc = "called"
    /\ rq_fn \in {"makeRequest", "requestWithProxy"}
    /\ rq_url \in RequestUrls
    /\ rq_browser \in BOOLEAN
    /\ rq_i = 0
    /\ rq_log = <<>>
    /\ rq_answers = <<>>
    /\ rq_errors = <<>>
    /\ rq_out = <<>>

\* the for loop of requestWithProxy entered at index i with the array
\* errors: the request to proxy i, or the throw after the loop
ProxyLoop(i, errors) ==
    /\ rq_errors' = errors
    /\ IF i > Len(CORS_PROXIES)
       THEN /\ rq_pc' = "rejected"
            /\ rq_out' = [thrown |-> <<"All CORS proxies failed: ">>
                                      \o JoinErrors(errors)]
            /\ UNCHANGED <<rq_i, rq_log>>
       ELSE /\ rq_pc' = "proxy"
            /\ rq_i' = i
            /\ rq_log' = Append(rq_log, CORS_PROXIES[i] \o EncodeURIComponent(rq_url))
            /\ UNCHANGED rq_out

\* makeRequest(url, options) up to await axios.default.get(url, config)
MakeRequest ==
    /\ rq_pc = "called"
    /\ rq_fn = "makeRequest"
    /\ rq_pc' = "direct"
    /\ rq_log' = Append(rq_log, rq_url)
    /\ UNCHANGED <<rq_fn, rq_url, rq_browser, rq_i, rq_answers, rq_errors, rq_out>>
    /\ UNCHANGED exceptRequest

\* the direct request resolves: return response.data
DirectResolves ==
    /\ rq_pc = "direct"
    /\ \E data \in ResponseData :
           /\ rq_answers' = Append(rq_answers, [ok |-> TRUE, data |-> data])
           /\ rq_out' = data
    /\ rq_pc' = "resolved"
    /\ UNCHANGED <<rq_fn, rq_url, rq_browser, rq_i, rq_log, rq_errors>>
    /\ UNCHANGED exceptRequest

\* the direct request rejects: the catch block of makeRequest
DirectRejects ==
    /\ rq_pc = "direct"
    /\ \E message \in RequestErrors :
           /\ rq_answers' = Append(rq_answers, [ok |-> FALSE, message |-> message])
           /\ IF UsesProxy(message, rq_browser)
              THEN ProxyLoop(1, <<>>)
              ELSE /\ rq_pc' = "rejected"
                   /\ rq_out' = [thrown |-> message]
                   /\ UNCHANGED <<rq_i, rq_log, rq_errors>>
    /\ UNCHANGED <<rq_fn, rq_url, rq_browser>>
    /\ UNCHANGED exceptRequest

\* requestWithProxy(url, config) called by itself, up to its first await
RequestWithProxy ==
    /\ rq_pc = "called"
    /\ rq_fn = "requestWithProxy"
    /\ ProxyLoop(1, <<>>)
    /\ UNCHANGED <<rq_fn, rq_url, rq_browser, rq_answers>>
    /\ UNCHANGED exceptRequest

\* the request to a proxy resolves: the rest of the try block
ProxyResolves ==
    /\ rq_pc = "proxy"
    /\ \E data \in ResponseData :
           /\ rq_answers' = Append(rq_answers, [ok |-> TRUE, data |-> data])
           /\ IF ProxyBody(data).thrown = <<>>
              THEN /\ rq_pc' = "resolved"
                   /\ rq_out' = ProxyBody(data).value
                   /\ UNCHANGED <<rq_i, rq_log, rq_errors>>
              ELSE ProxyLoop(rq_i + 1,
                             Recorded(rq_errors, CORS_PROXIES[rq_i],
                                      ProxyBody(data).thrown))
    /\ UNCHANGED <<rq_fn, rq_url, rq_browser>>
    /\ UNCHANGED exceptRequest

\* the request to a proxy rejects: the catch block of the loop
ProxyRejects ==
    /\ rq_pc = "proxy"
    /\ \E message \in RequestErrors :
           /\ rq_answers' = Append(rq_answers, [ok |-> FALSE, message |-> message])
           /\ ProxyLoop(rq_i + 1, Recorded(rq_errors, CORS_PROXIES[rq_i], message))
    /\ UNCHANGED <<rq_fn, rq_url, rq_browser>>
    /\ UNCHANGED exceptRequest

NextRequest ==
    \/ MakeRequest
    \/ DirectResolves
    \/ DirectRejects
    \/ RequestWithProxy
    \/ ProxyResolves
    \/ ProxyRejects

(***************************************************************************)
(* extractFrequency (Linguee extractor)                                    *)
(*                                                                         *)
(* The argument is the sequence of the texts of the .tag_c elements found  *)
(* in it; text() of the selection is their concatenation.                  *)
(***************************************************************************)
MaxTags == 2

FrequencyPhrases ==
    {<<"x">>,
     <<"f","r","e","c","u","e","n","t","e">>,
     <<"m","u","y"," ","f","r","e","c","u","e","n","t","e">>,
     <<"u","s","o"," ","m","u","y"," ","f","r","e","c","u","e","n","t","e">>,
     <<"m","e","n","o","s"," ","f","r","e","c","u","e","n","t","e">>,
     <<"p","o","c","o"," ","u","s","a","d","o">>}

FrequencyTexts ==
    {Cased(p, mode) \o pad : p \in FrequencyPhrases,
                             mode \in {"lower", "upper", "capital"},
                             pad \in {<<>>, <<" ">>}}

FrequencyElements ==
    {<<>>} \cup {<<t>> : t \in FrequencyTexts}
           \cup (IF MaxTags >= 2
                 THEN {<<t, u>> : t \in {<<>>, <<"(">>}, u \in FrequencyTexts}
                 ELSE {})
           \cup (IF MaxTags >= 3
                 THEN {<<t, u, t>> : t \in {<<"(">>}, u \in FrequencyTexts}
                 ELSE {})

\* lines 828-833: the three tests on freqText, in the order of the code
FrequencyOf(freqText) ==
    IF Includes(freqText, <<"m","u","y"," ","f","r","e","c","u","e","n","t","e">>) \/ Includes(freqText, <<"u","s","o"," ","m","u","y"," ","f","r","e","c","u","e","n","t","e">>) THEN "high"
    ELSE IF Includes(freqText, <<"f","r","e","c","u","e","n","t","e">>) THEN "medium"
         ELSE IF Includes(freqText, <<"m","e","n","o","s"," ","f","r","e","c","u","e","n","t","e">>) THEN "low"
              ELSE "unknown"

\* extractFrequency(element)
extractFrequency(element) ==
    IF Len(element) = 0 THEN "unknown"
    ELSE FrequencyOf(ToLowerCase(Concat(element)))

IdleFrequency ==
    /\ fq_pc = "idle"
    /\ fq_element = <<>>
    /\ fq_out = "none"

StartFrequency ==
    /\ fq_pc = "start"
    /\ fq_element \in FrequencyElements
    /\ fq_out = "none"

ExtractFrequency ==
    /\ fq_pc = "start"
    /\ fq_out' = extractFrequency(fq_element)
    /\ fq_pc' = "done"
    /\ UNCHANGED fq_element
    /\ UNCHANGED exceptFrequency

NextFrequency == ExtractFrequency

(***************************************************************************)
(* RateLimiter (utils/common.js)                                           *)
(*                                                                         *)
(* A step is what runs between two awaits. Functions are named by the      *)
(* number of the execute call that submitted them.                         *)
(***************************************************************************)
MaxCalls == 3
MaxTime == 3

\* 1000 / this.requestsPerSecond, in units of the clock
MinInterval == 2

\* the processing flag not consulted
Skips_EmptyOnly(processing, queue) == Len(queue) = 0

\* processQueue: if (this.processing || this.queue.length === 0) return
Skips(processing, queue) == processing \/ Len(queue) = 0

\* the loop left after one function
LoopGoesOn_Never(queue) == FALSE

\* while (this.queue.length > 0)
LoopGoesOn(queue) == Len(queue) > 0

IdleLimiter ==
    /\ rl_queue = <<>>
    /\ rl_processing = FALSE
    /\ rl_pc = "unused"
    /\ rl_clock = 0
    /\ rl_last = 0
    /\ rl_calls = <<>>
    /\ rl_started = <<>>
    /\ rl_fn = <<>>
    /\ rl_promise = <<>>

\* after the constructor; Date.now() is then far more than an interval
\* after 0
StartLimiter ==
    /\ rl_queue = <<>>
    /\ rl_processing = FALSE
    /\ rl_pc = "idle"
    /\ rl_clock = MinInterval
    /\ rl_last = 0
    /\ rl_calls = <<>>
    /\ rl_started = <<>>
    /\ rl_fn = [id \in 1..MaxCalls |-> "none"]
    /\ rl_promise = [id \in 1..MaxCalls |-> "none"]

\* one iteration of the loop for the queue up to its first await: the wait
\* for the timer, or queue.shift() and the call of the function
Iteration(queue, last) ==
    IF rl_clock - last < MinInterval
    THEN /\ rl_pc' = "sleeping"
         /\ rl_queue' = queue
         /\ UNCHANGED rl_started
    ELSE /\ rl_pc' = "running"
         /\ rl_queue' = Tail(queue)
         /\ rl_started' = Append(rl_started, Head(queue))

\* execute(fn): the executor of the promise, with the call of processQueue
\* up to its first await
Execute ==
    /\ rl_pc # "unused"
    /\ Len(rl_calls) < MaxCalls
    /\ rl_calls' = Append(rl_calls, rl_processing)
    /\ IF Skips(rl_processing, Append(rl_queue, Len(rl_calls) + 1))
       THEN /\ rl_queue' = Append(rl_queue, Len(rl_calls) + 1)
            /\ UNCHANGED <<rl_processing, rl_pc, rl_started>>
       ELSE /\ rl_processing' = TRUE
            /\ Iteration(Append(rl_queue, Len(rl_calls) + 1), rl_last)
    /\ UNCHANGED <<rl_clock, rl_last, rl_fn, rl_promise>>
    /\ UNCHANGED exceptLimiter

\* the timer of the loop fires, at its time or later: queue.shift() and the
\* call of the function
TimerFires ==
    /\ rl_pc = "sleeping"
    /\ rl_clock' = IF rl_clock < rl_last + MinInterval THEN rl_last + MinInterval
                   ELSE rl_clock
    /\ rl_pc' = "running"
    /\ rl_queue' = Tail(rl_queue)
    /\ rl_started' = Append(rl_started, Head(rl_queue))
    /\ UNCHANGED <<rl_processing, rl_last, rl_calls, rl_fn, rl_promise>>
    /\ UNCHANGED exceptLimiter

\* a function called by the loop ends: resolve(result) or reject(error),
\* this.lastRequestTime = Date.now(), then the next iteration or the end of
\* the loop
FunctionSettles ==
    /\ rl_pc = "running"
    /\ \E id \in {i \in 1..MaxCalls :
                     (\E k \in 1..Len(rl_started) : rl_started[k] = i)
                         /\ rl_fn[i] = "none"},
          outcome \in {"resolved", "rejected"} :
           /\ rl_fn' = [rl_fn EXCEPT ![id] = outcome]
           /\ rl_promise' = [rl_promise EXCEPT ![id] = outcome]
    /\ rl_last' = rl_clock
    /\ IF LoopGoesOn(rl_queue)
       THEN /\ Iteration(rl_queue, rl_clock)
            /\ UNCHANGED rl_processing
       ELSE /\ rl_processing' = FALSE
            /\ rl_pc' = "idle"
            /\ UNCHANGED <<rl_queue, rl_started>>
    /\ UNCHANGED <<rl_clock, rl_calls>>
    /\ UNCHANGED exceptLimiter

\* time passes
LimiterClockTick ==
    /\ rl_pc # "unused"
    /\ rl_clock < MaxTime
    /\ rl_clock' = rl_clock + 1
    /\ UNCHANGED <<rl_queue, rl_processing, rl_pc, rl_last, rl_calls, rl_started,
                   rl_fn, rl_promise>>
    /\ UNCHANGED exceptLimiter

NextLimiter ==
    \/ Execute
    \/ TimerFires
    \/ FunctionSettles
    \/ LimiterClockTick

(***************************************************************************)
(* Specifications                                                          *)
(***************************************************************************)
InitText ==
    StartText /\ IdleWR /\ IdleLG /\ IdleAudio /\ IdleRepeat /\ IdleApi /\
    IdleMulti /\ IdleAuto /\ IdleRequest /\ IdleFrequency /\ IdleLimiter
SpecText == InitText /\ [][NextText]_vars

InitWR ==
    IdleText /\ StartWR /\ IdleLG /\ IdleAudio /\ IdleRepeat /\ IdleApi /\
    IdleMulti /\ IdleAuto /\ IdleRequest /\ IdleFrequency /\ IdleLimiter
SpecWR == InitWR /\ [][NextWR]_vars

InitLG ==
    IdleText /\ IdleWR /\ StartLG /\ IdleAudio /\ IdleRepeat /\ IdleApi /\
    IdleMulti /\ IdleAuto /\ IdleRequest /\ IdleFrequency /\ IdleLimiter

InitAudio ==
    IdleText /\ IdleWR /\ IdleLG /\ StartAudio /\ IdleRepeat /\ IdleApi /\
    IdleMulti /\ IdleAuto /\ IdleRequest /\ IdleFrequency /\ IdleLimiter
SpecAudio == InitAudio /\ [][NextAudio]_vars

InitRepeat ==
    IdleText /\ IdleWR /\ IdleLG /\ IdleAudio /\ StartRepeat /\ IdleApi /\
    IdleMulti /\ IdleAuto /\ IdleRequest /\ IdleFrequency /\ IdleLimiter
SpecRepeat == InitRepeat /\ [][NextRepeat]_vars

InitApi ==
    IdleText /\ IdleWR /\ IdleLG /\ IdleAudio /\ IdleRepeat /\ StartApi /\
    IdleMulti /\ IdleAuto /\ IdleRequest /\ IdleFrequency /\ IdleLimiter
SpecApi == InitApi /\ [][NextApi]_vars

InitMulti ==
    IdleText /\ IdleWR /\ IdleLG /\ IdleAudio /\ IdleRepeat /\ IdleApi /\
    StartMulti /\ IdleAuto /\ IdleRequest /\ IdleFrequency /\ IdleLimiter
SpecMulti == InitMulti /\ [][NextMulti]_vars
SpecLinguee == InitLG /\ [][NextLG]_vars

InitAuto ==
    IdleText /\ IdleWR /\ IdleLG /\ IdleAudio /\ IdleRepeat /\ IdleApi /\
    IdleMulti /\ StartAuto /\ IdleRequest /\ IdleFrequency /\ IdleLimiter
SpecAuto == InitAuto /\ [][NextAuto]_vars

InitRequest ==
    IdleText /\ IdleWR /\ IdleLG /\ IdleAudio /\ IdleRepeat /\ IdleApi /\
    IdleMulti /\ IdleAuto /\ StartRequest /\ IdleFrequency /\ IdleLimiter
SpecRequest == InitRequest /\ [][NextRequest]_vars

InitFrequency ==
    IdleText /\ IdleWR /\ IdleLG /\ IdleAudio /\ IdleRepeat /\ IdleApi /\
    IdleMulti /\ IdleAuto /\ IdleRequest /\ StartFrequency /\ IdleLimiter
SpecFrequency == InitFrequency /\ [][NextFrequency]_vars

InitLimiter ==
    IdleText /\ IdleWR /\ IdleLG /\ IdleAudio /\ IdleRepeat /\ IdleApi /\
    IdleMulti /\ IdleAuto /\ IdleRequest /\ IdleFrequency /\ StartLimiter
SpecLimiter == InitLimiter /\ [][NextLimiter]_vars

\* timers fire and every function called ends
SpecLimiterFair ==
    SpecLimiter /\ WF_vars(TimerFires) /\ WF_vars(FunctionSettles)

\* both extractors: a call of either one
InitExtract == InitWR \/ InitLG
NextExtract == NextWR \/ NextLG
SpecExtract == InitExtract /\ [][NextExtract]_vars

(***************************************************************************)
(* Properties of TextProcessor                                             *)
(***************************************************************************)
HasDoubleSpace(s) == \E i \in 1..(Len(s) - 1) : s[i] = " " /\ s[i + 1] = " "

\* C7: cleanText is idempotent: cleaning a cleaned text returns it unchanged
C7_CleanTextIdempotent ==
    tp_pc = "recleaned" => tp_out2 = tp_out

\* C8: the text cleanText returns has no whitespace at either end and no
\* two consecutive spaces
C8_CleanTextNormalized ==
    (tp_pc = "cleaned") =>
        /\ tp_out = <<>> \/ (~IsSpace(tp_out[1]) /\ ~IsSpace(tp_out[Len(tp_out)]))
        /\ ~HasDoubleSpace(tp_out)

RoleNames == {typeMap[i][1] : i \in 1..Len(typeMap)}

CodeOf(name) == typeMap[CHOOSE i \in 1..Len(typeMap) : typeMap[i][1] = name][2]

\* the argument of the call, lower-cased and trimmed
Normalized == Trim([i \in 1..Len(tp_text) |-> ToLowerChar(tp_text[i])])

\* C9: an argument that equals a role name once lower-cased and trimmed
\* yields the short code of that role name, whatever its letter case
C9_ExactMatchAnyCase ==
    (tp_pc = "classified" /\ Normalized \in RoleNames)
        => tp_out = CodeOf(Normalized)

\* an upper-case role name was classified, and one that contains an earlier
\* role name ("PRONOUN" contains "noun") kept its own code
C9_Witness ==
    /\ tp_pc = "classified"
    /\ tp_text = <<"P","R","O","N","O","U","N">>
    /\ tp_out = <<"p","r","o","n">>

\* C10: an argument that equals no role name but contains some yields the
\* code of the first contained role name in the order of declaration
C10_FirstPartialMatch ==
    LET n == Normalized
    IN  (tp_pc = "classified" /\ n \notin RoleNames) =>
            \A i \in 1..Len(typeMap) :
                (/\ Includes(n, typeMap[i][1])
                 /\ \A j \in 1..(i - 1) : ~Includes(n, typeMap[j][1]))
                    => tp_out = typeMap[i][2]

\* an argument with "plural" before "noun" was classified as a noun
C10_Witness ==
    /\ tp_pc = "classified"
    /\ tp_text = <<"p","l","u","r","a","l"," ","n","o","u","n">>
    /\ tp_out = <<"n">>

(***************************************************************************)
(* Properties of the WordReference extractor                               *)
(***************************************************************************)
\* a meaning with a word, a part of speech or a sense
Populated(meaning) ==
    meaning.word # <<>> \/ meaning.pos # <<>> \/ meaning.sense # <<>>

\* C3: no Translation without a populated meaning and without an example is
\* in the translations of an emitted section
C3_NoEmptyTranslation ==
    (wr_pc = "done") =>
        \A i \in 1..Len(wr_result.sections) :
            \A k \in 1..Len(wr_result.sections[i].translations) :
                LET t == wr_result.sections[i].translations[k]
                IN  \/ \E m \in 1..Len(t.meanings) : Populated(t.meanings[m])
                    \/ Len(t.examples) > 0

\* a table of one word row, one source-example row and one target-example row
IsMinimalTable(table) ==
    /\ Len(table.rows) = 3
    /\ Len(table.rows[1].FrWrd) > 0 /\ Len(table.rows[1].ToWrd) > 0
    /\ table.rows[1].hasId
    /\ Len(table.rows[1].Ex) = 0
    /\ Len(table.rows[2].FrEx) > 0 /\ Len(table.rows[2].FrWrd) = 0
    /\ Len(table.rows[3].ToEx) > 0 /\ Len(table.rows[3].FrWrd) = 0

\* C4: a table of one word row, one source-example row and one
\* target-example row yields one Translation with one meaning and one
\* example, whose translations have length 1
C4_MinimalTableOneExample ==
    (wr_pc = "done" /\ Len(wr_html) = 1 /\ IsMinimalTable(wr_html[1])) =>
        /\ Len(wr_result.sections) = 1
        /\ Len(wr_result.sections[1].translations) = 1
        /\ Len(wr_result.sections[1].translations[1].meanings) = 1
        /\ Len(wr_result.sections[1].translations[1].examples) = 1
        /\ Len(wr_result.sections[1].translations[1].examples[1].translations) = 1

\* a word row without inline example, a source-example row, a target-example
\* row
IsWordRow(row) ==
    Len(row.FrWrd) > 0 /\ Len(row.ToWrd) > 0 /\ row.hasId /\ Len(row.Ex) = 0

IsSourceExampleRow(row) == Len(row.FrEx) > 0 /\ Len(row.FrWrd) = 0 /\ Len(row.ToWrd) = 0

IsTargetExampleRow(row) ==
    Len(row.ToEx) > 0 /\ Len(row.FrEx) = 0 /\ Len(row.FrWrd) = 0 /\ Len(row.ToWrd) = 0

\* for each word row of rows, in order, the number of source-example rows
\* between it and the next word row
RECURSIVE ExamplesPerWordRow(_)
ExamplesPerWordRow(rows) ==
    IF rows = <<>> THEN <<>>
    ELSE LET before == ExamplesPerWordRow(SubSeq(rows, 1, Len(rows) - 1))
             row == rows[Len(rows)]
         IN  IF IsWordRow(row) THEN Append(before, 0)
             ELSE IF IsSourceExampleRow(row) /\ before # <<>>
                  THEN [before EXCEPT ![Len(before)] = @ + 1]
                  ELSE before

\* C25: in a table of word rows, source-example rows and target-example
\* rows that begins with a word row, every word row and no other row opens a
\* Translation, and every source-example row leaves one example in the
\* Translation of the nearest preceding word row, the last one included
C25_ExamplesFollowWordRow ==
    (/\ wr_pc = "done"
     /\ Len(wr_html) = 1
     /\ wr_html[1].rows # <<>>
     /\ IsWordRow(wr_html[1].rows[1])
     /\ \A i \in 1..Len(wr_html[1].rows) :
            \/ IsWordRow(wr_html[1].rows[i])
            \/ IsSourceExampleRow(wr_html[1].rows[i])
            \/ IsTargetExampleRow(wr_html[1].rows[i])) =>
        /\ Len(wr_result.sections) = 1
        /\ Len(wr_result.sections[1].translations)
              = Len(ExamplesPerWordRow(wr_html[1].rows))
        /\ \A k \in 1..Len(wr_result.sections[1].translations) :
               Len(wr_result.sections[1].translations[k].examples)
                  = ExamplesPerWordRow(wr_html[1].rows)[k]

(***************************************************************************)
(* Properties of the Linguee extractor                                     *)
(***************************************************************************)
\* C1: the fallback pass runs exactly when the lemma loop kept no block, and
\* a non-empty result of the lemma loop is returned as it is
C1_FallbackIffPrimaryEmpty ==
    /\ lg_fallback => Len(lg_primary) = 0
    /\ (lg_pc = "done") => (lg_fallback <=> Len(lg_primary) = 0)
    /\ (lg_pc = "done" /\ Len(lg_primary) > 0) => lg_result = lg_primary

\* the lemma loop kept a block and its result was returned although the
\* fallback pass would have produced something else
C1_Witness ==
    /\ lg_pc = "done"
    /\ ~lg_fallback
    /\ Len(lg_result) > 0
    /\ lg_result = lg_primary
    /\ FallbackFrom(lg_html, 1, lg_word) # lg_result

\* C2: every entry returned, by either pass, has a candidate or a context
C2_NoEmptyEntry ==
    (lg_pc = "done") =>
        \A k \in 1..Len(lg_result) :
            Len(lg_result[k].translations) > 0 \/ Len(lg_result[k].contexts) > 0

\* a lemma in scope with a source word, with .translation and .example
\* elements none of which was kept, has been processed and is not returned
C2_Witness ==
    /\ lg_pc = "done"
    /\ Len(lg_html.blocks) = 1
    /\ lg_html.blocks[1].cls = "lemma"
    /\ ~lg_html.hasDictionary
    /\ Len(lg_html.blocks[1].lemmaLinks) > 0
    /\ Len(lg_html.blocks[1].translations) > 0
    /\ Len(lg_html.blocks[1].examples) > 0
    /\ lg_result = <<>>

\* the page is one lemma in scope whose two candidates are its source word
\* and another word
IsSelfAndOther(html) ==
    /\ Len(html.blocks) = 1
    /\ html.blocks[1].cls = "lemma"
    /\ html.hasDictionary => html.inDictionary[1]
    /\ Len(html.blocks[1].lemmaLinks) = 1
    /\ Len(html.blocks[1].translations) = 2
    /\ Trim(html.blocks[1].translations[1]) = Trim(html.blocks[1].lemmaLinks[1])
    /\ Trim(html.blocks[1].translations[2]) # <<>>
    /\ Trim(html.blocks[1].translations[2]) # Trim(html.blocks[1].lemmaLinks[1])

\* C5: no candidate of an entry the lemma loop produced has the text of the
\* entry's source word, and a lemma with one candidate equal to the source
\* word and one different yields the different one only
C5_NoSelfCandidate ==
    (lg_pc \in {"looped", "done"}) =>
        /\ \A k \in 1..Len(lg_primary) :
              \A c \in 1..Len(lg_primary[k].translations) :
                  lg_primary[k].translations[c].text # lg_primary[k].from
        /\ IsSelfAndOther(lg_html) =>
              /\ Len(lg_primary) = 1
              /\ lg_primary[1].translations
                     = <<[text |-> Trim(lg_html.blocks[1].translations[2])]>>

\* the lemma "a" with the candidates "a" and "b" gave the entry with "b" only
C5_Witness ==
    /\ lg_pc = "looped"
    /\ IsSelfAndOther(lg_html)
    /\ lg_html.blocks[1].translations = <<<<"a">>, <<"b">>>>
    /\ Len(lg_primary) = 1
    /\ lg_primary[1].from = <<"a">>
    /\ lg_primary[1].translations = <<[text |-> <<"b">>]>>

\* C6 as stated: a page without table.WRD elements gives no section, and a
\* page without .lemma elements gives no translation
C6_EmptyWithoutTablesOrLemmas ==
    /\ (wr_pc = "done" /\ Len(wr_html) = 0) => wr_result.sections = <<>>
    /\ (lg_pc = "done"
            /\ \A i \in 1..Len(lg_html.blocks) : lg_html.blocks[i].cls # "lemma")
          => lg_result = <<>>

\* C6 as amended: a page without table.WRD elements gives no section, and a
\* page without .lemma, .translation_group and .meaninggroup elements gives
\* no translation
C6_EmptyWithoutTablesOrContainers ==
    /\ (wr_pc = "done" /\ Len(wr_html) = 0) => wr_result.sections = <<>>
    /\ (lg_pc = "done"
            /\ \A i \in 1..Len(lg_html.blocks) :
                  lg_html.blocks[i].cls
                      \notin {"lemma", "translation_group", "meaninggroup"})
          => lg_result = <<>>

\* a page whose only block is a plain div with two different links, one of
\* them holding the queried word, went through the fallback pass and gave
\* nothing
C6_Witness ==
    /\ lg_pc = "done"
    /\ lg_fallback
    /\ Len(lg_html.blocks) = 1
    /\ lg_html.blocks[1].cls = "div"
    /\ lg_html.blocks[1].translations = <<<<"a">>, <<"b">>>>
    /\ lg_word = <<"A">>
    /\ lg_result = <<>>

\* C11: an argument that neither equals nor contains a role name once
\* lower-cased and trimmed is returned lower-cased and trimmed, and the
\* value returned is the empty string only for the empty argument
C11_PassThrough ==
    LET n == Normalized
    IN  (/\ tp_pc = "classified"
         /\ n \notin RoleNames
         /\ \A i \in 1..Len(typeMap) : ~Includes(n, typeMap[i][1]))
            => /\ tp_out = n
               /\ tp_out = <<>> => tp_text = <<>>

(***************************************************************************)
(* Properties of the audio links                                           *)
(***************************************************************************)
NoDuplicates(list) ==
    \A i, j \in 1..Len(list) : list[i] = list[j] => i = j

AllAbsolute(list) ==
    \A i \in 1..Len(list) : list[i] # <<>> /\ list[i][1] = Origin

\* C12: the audioLinks of a WordReference result hold no entry twice and
\* every entry is an absolute URL that begins with the site's origin,
\* whatever the audioFiles literal and the direct paths of the page are
C12_AudioLinksUniqueAbsolute ==
    au_pc \in {"scraped", "extracted"}
        => NoDuplicates(au_links) /\ AllAbsolute(au_links)

\* the same for the list AudioExtractor.extractWordReferenceAudio returns
AudioExtractorUniqueAbsolute ==
    au_pc = "extracted"
        => NoDuplicates(au_extracted) /\ AllAbsolute(au_extracted)

ResultCollection(d, result) ==
    IF d = "wordreference" THEN result.sections ELSE result.translations

HasError(result) == "error" \in DOMAIN result

\* C14: in translate the two lookups proceed independently: once a lookup
\* has been started translate never rejects, and when it resolves every
\* lookup started has its own result, whatever it is, under its own key of
\* result.dictionaries, and no other key is present
C14_LookupsIndependent ==
    api_fn = "translate" =>
        /\ (\E d \in Dictionaries : sc[d].pc # "idle") => api_pc # "rejected"
        /\ api_pc = "resolved" =>
              /\ DOMAIN api_out.dictionaries = {d \in Dictionaries : sc[d].pc # "idle"}
              /\ \A d \in DOMAIN api_out.dictionaries :
                     /\ sc[d].pc = "returned"
                     /\ api_out.dictionaries[d] = sc[d].ret
                     /\ api_out.dictionaries[d].source = d

\* translate resolved after every request of WordReference was rejected and
\* Linguee answered: the error of the one and the translations of the other
\* are both recorded
C14_Witness ==
    /\ api_fn = "translate"
    /\ api_pc = "resolved"
    /\ DOMAIN api_out.dictionaries = Dictionaries
    /\ HasError(api_out.dictionaries["wordreference"])
    /\ api_out.dictionaries["wordreference"].error \in FetchErrors
    /\ ~HasError(api_out.dictionaries["linguee"])
    /\ Len(api_out.dictionaries["linguee"].translations) > 0

\* a string that is the short code, the long form or the name of a language
\* of LanguageCodes.codes, in any letter case
Recognised(code) ==
    \E i \in 1..Len(codes) :
        ToLowerCase(code) \in {codes[i].code, codes[i].long, ToLowerCase(codes[i].name)}

\* the short code of a recognised string
ShortCode(code) ==
    codes[CHOOSE i \in 1..Len(codes) :
              ToLowerCase(code) \in {codes[i].code, codes[i].long,
                                     ToLowerCase(codes[i].name)}].code

\* the call asks Linguee
AsksLinguee ==
    \/ api_fn \in {"scrapeLinguee", "translateWithLinguee"}
    \/ api_fn = "translateWith"
          /\ ToLowerCase(api_dict) \in {<<"l","i","n","g","u","e","e">>, <<"l","g">>}

\* the arguments name an unrecognised language code, or, for a call that
\* asks Linguee, a pair Linguee does not support
InvalidLanguages ==
    \/ ~Recognised(api_from)
    \/ ~Recognised(api_to)
    \/ /\ AsksLinguee
       /\ Recognised(api_from) /\ Recognised(api_to)
       /\ ~ListIncludes(supportedPairs, PairText(ShortCode(api_from), ShortCode(api_to)))

\* C15: for an unrecognised language code or an unsupported pair no request
\* is ever issued, and the call ends with the validation error: a result
\* with an error field or a rejection
C15_NoFetchForInvalidLanguages ==
    (api_pc # "idle" /\ InvalidLanguages) =>
        /\ \A d \in Dictionaries : sc[d].fetched = <<>>
        /\ api_pc = "resolved" => HasError(api_out)

\* the call is one that the exported function refuses before it looks
\* anything up: validatePair reports an error, the pair is not in the list
\* of Linguee, the dictionary name is unknown, or no dictionary takes the pair
RefusedCall ==
    LET validation == validatePair(api_from, api_to)
    IN  \/ api_fn = "translateWith" /\ SwitchDictionary(api_dict) = "default"
        \/ validation.error # <<>>
        \/ /\ validation.error = <<>>
           /\ AsksLinguee
           /\ ~ListIncludes(supportedPairs, PairText(validation.from, validation.to))
        \/ /\ validation.error = <<>>
           /\ api_fn = "translate"
           /\ ~ListIncludes(supportedPairs, PairText(validation.from, validation.to))
           /\ ~(ListIncludes(WordReferenceLanguages, validation.from)
                   /\ ListIncludes(WordReferenceLanguages, validation.to))

\* a result whose collection is empty or missing
IsFailure(d, result) ==
    IF d = "wordreference"
    THEN "sections" \notin DOMAIN result \/ result.sections = <<>>
    ELSE "translations" \notin DOMAIN result \/ result.translations = <<>>

Spellings(code) ==
    IF Recognised(code)
    THEN LET i == CHOOSE k \in 1..Len(codes) : codes[k].code = ShortCode(code)
         IN  <<codes[i].code, codes[i].long>>
    ELSE <<ToLowerCase(code)>>

\* the combinations in the order of the claim: the source spelling in the
\* outer loop, the target spelling in the inner loop
Combinations(from, to) ==
    LET fs == Spellings(from)
        ts == Spellings(to)
    IN  [k \in 1..(Len(fs) * Len(ts)) |->
            <<fs[((k - 1) \div Len(ts)) + 1], ts[((k - 1) % Len(ts)) + 1]>>]

\* the scrape function of d was called with languages that validation accepted
Scraping(d) ==
    sc[d].pc \in {"fetching", "done", "returned"} /\ sc[d].validation.error = <<>>

\* C17: the requests of a scrape function follow the combinations in their
\* fixed order; it goes on after a failed or empty attempt, never after a
\* non-empty one; a result without error is the extraction of the last
\* combination requested and names it; an error result comes after all of
\* them
C17_AlternatesInOrder ==
    \A d \in Dictionaries :
        Scraping(d) =>
            LET r == sc[d]
                all == Combinations(r.from, r.to)
                n == Len(r.fetched)
            IN  /\ n >= 1 /\ n <= Len(all)
                /\ \A k \in 1..n :
                       r.fetched[k] = RequestURL(d, r.word, all[k][1], all[k][2])
                /\ r.fromAlternatives[r.i] = all[n][1]
                /\ r.toAlternatives[r.j] = all[n][2]
                /\ (r.pc = "fetching" /\ r.html # <<>>) =>
                       ResultCollection(d, Extracted(d, r, r.html, 0)) = <<>>
                /\ (r.pc # "fetching" /\ ~HasError(r.out)) =>
                       /\ ResultCollection(d, r.out) # <<>>
                       /\ ResultCollection(d, r.out)
                              = ResultCollection(d, Extracted(d, r, r.html, 0))
                       /\ r.out.languagePair = PairText(all[n][1], all[n][2])
                /\ (r.pc # "fetching" /\ HasError(r.out)) => n = Len(all)

\* scrapeWordReference returned the result of the third combination
\* (english-es) after a rejected request
C17_Witness ==
    /\ api_fn = "scrapeWordReference"
    /\ sc["wordreference"].pc = "done"
    /\ Len(sc["wordreference"].fetched) = 3
    /\ sc["wordreference"].lastError # <<>>
    /\ ~HasError(sc["wordreference"].out)
    /\ sc["wordreference"].out.languagePair
           = <<"e","n","g","l","i","s","h","-","e","s">>

\* C18: a result of scrapeWordReference or scrapeLinguee carries an error
\* only with an empty collection, and only when validation failed or every
\* combination of alternates has been requested; a result with a non-empty
\* collection carries none
C18_ErrorOnlyWhenExhausted ==
    \A d \in Dictionaries :
        sc[d].pc \in {"done", "returned"} =>
            LET r == sc[d]
            IN  /\ HasError(r.out) =>
                      /\ ResultCollection(d, r.out) = <<>>
                      /\ \/ r.validation.error # <<>> /\ r.fetched = <<>>
                         \/ /\ r.validation.error = <<>>
                            /\ Len(r.fetched) = Len(Combinations(r.from, r.to))
                /\ ResultCollection(d, r.out) # <<>> => ~HasError(r.out)
                /\ (api_fn \in ScrapeFunctions /\ api_pc = "resolved") =>
                      api_out = r.out

\* scrapeLinguee returned translations without an error although an earlier
\* request had been rejected
C18_Witness ==
    /\ api_fn = "scrapeLinguee"
    /\ api_pc = "resolved"
    /\ sc["linguee"].lastError # <<>>
    /\ Len(api_out.translations) > 0
    /\ ~HasError(api_out)

\* C19: whatever the word, the language strings and the outcome of the
\* requests, scrapeWordReference does not reject, and the object it resolves
\* to has the queried word as inputWord and an array as sections
C19_ScrapeWordReferenceNeverRejects ==
    api_fn = "scrapeWordReference" =>
        /\ api_pc # "rejected"
        /\ sc["wordreference"].pc # "threw"
        /\ api_pc = "waiting" => sc["wordreference"].pc \in {"fetching", "done"}
        /\ api_pc = "resolved" =>
              /\ api_out.inputWord = api_word
              /\ "sections" \in DOMAIN api_out
              /\ DOMAIN api_out.sections = 1..Len(api_out.sections)

\* scrapeWordReference resolved after each of its four requests was rejected
C19_Witness ==
    /\ api_fn = "scrapeWordReference"
    /\ api_pc = "resolved"
    /\ api_word = <<"a", " ", "b">>
    /\ Len(sc["wordreference"].fetched) = 4
    /\ sc["wordreference"].html = <<>>
    /\ api_out.error \in FetchErrors
    /\ api_out.sections = <<>>

(***************************************************************************)
(* Properties of MultiDictionaryScraper.translate                          *)
(***************************************************************************)
\* the key names no registered dictionary
NotRegistered == md_key \notin {"wordreference", "linguee"}

\* the dictionary of the key does not support the pair: a language is not
\* in its list or, for Linguee, the pair is not in the list of pairs
PairNotSupported ==
    /\ ~NotRegistered
    /\ \/ ~ListIncludes(IF md_key = "wordreference" THEN WordReferenceLanguages
                        ELSE LingueeLanguages, md_from)
       \/ ~ListIncludes(IF md_key = "wordreference" THEN WordReferenceLanguages
                        ELSE LingueeLanguages, md_to)
       \/ md_key = "linguee" /\ ~ListIncludes(supportedPairs, PairText(md_from, md_to))

Covers(key, from, to) ==
    /\ ListIncludes(IF key = "wordreference" THEN WordReferenceLanguages
                    ELSE LingueeLanguages, from)
    /\ ListIncludes(IF key = "wordreference" THEN WordReferenceLanguages
                    ELSE LingueeLanguages, to)
    /\ key = "linguee" => ListIncludes(supportedPairs, PairText(from, to))

\* the dictionaries covering the pair of the call, WordReference (priority
\* 1) before Linguee (priority 2)
ByPriority ==
    SelectSeq(<<"wordreference", "linguee">>,
              LAMBDA key : Covers(key, ta_from, ta_to))

\* the results obtained so far, all with an error
AllFailed == \A k \in 1..Len(ta_results) : HasError(ta_results[k])

ProxyLog == IF rq_fn = "makeRequest" /\ rq_log # <<>> THEN Tail(rq_log) ELSE rq_log

ProxyAnswers ==
    IF rq_fn = "makeRequest" /\ rq_answers # <<>> THEN Tail(rq_answers)
    ELSE rq_answers

\* the proxy did not respond with a body: the request was rejected or the
\* response carried no data
ProxyFailure(answer) == ~answer.ok \/ answer.data.type = "null"

\* the answers to the first n proxies are all failures
FirstFailed(n) == \A k \in 1..n : ProxyFailure(ProxyAnswers[k])

\* the value is the body carried by the answer
IsBodyOf(value, answer) ==
    /\ answer.ok
    /\ IF answer.data.type = "string" THEN value = answer.data.text
       ELSE /\ answer.data.type = "object"
            /\ value # <<>>
            /\ value \in {answer.data.contents, answer.data.data, answer.data}

\* C22: requestWithProxy sends one request at a time to the proxies in list
\* order, each one only after all earlier ones failed; it returns the body of
\* the first proxy that responds and asks no later proxy; it throws "All
\* CORS proxies failed" only after all four proxies failed, with one recorded
\* error per proxy, in order
C22_ProxiesInOrder ==
    (rq_pc \notin {"idle", "called", "direct"}) =>
        /\ Len(ProxyLog) <= Len(CORS_PROXIES)
        /\ \A k \in 1..Len(ProxyLog) :
               ProxyLog[k] = CORS_PROXIES[k] \o EncodeURIComponent(rq_url)
        /\ rq_pc = "proxy" =>
              /\ Len(ProxyAnswers) = Len(ProxyLog) - 1
              /\ FirstFailed(Len(ProxyAnswers))
              /\ Len(rq_errors) = Len(ProxyAnswers)
        /\ (rq_pc = "resolved" /\ ProxyLog # <<>>) =>
              /\ Len(ProxyAnswers) = Len(ProxyLog)
              /\ FirstFailed(Len(ProxyAnswers) - 1)
              /\ IsBodyOf(rq_out, ProxyAnswers[Len(ProxyAnswers)])
        /\ (rq_pc = "rejected" /\ Head(rq_out.thrown) = "All CORS proxies failed: ") =>
              /\ Len(ProxyLog) = Len(CORS_PROXIES)
              /\ Len(ProxyAnswers) = Len(CORS_PROXIES)
              /\ FirstFailed(Len(CORS_PROXIES))
              /\ Len(rq_errors) = Len(CORS_PROXIES)
              /\ \A k \in 1..Len(rq_errors) :
                     SubSeq(rq_errors[k], 1, 3) = CORS_PROXIES[k] \o <<":", " ">>

\* the third proxy responded after two failures
C22_Witness ==
    /\ rq_fn = "requestWithProxy"
    /\ rq_pc = "resolved"
    /\ Len(rq_log) = 3
    /\ Len(rq_errors) = 2
    /\ rq_out = PageText

\* the messages of the model that isCorsError takes for CORS failures
CorsMessages ==
    {<<"N","e","t","w","o","r","k"," ","E","r","r","o","r">>,
     <<"B","l","o","c","k","e","d"," ","b","y"," ","C","O","R","S"," ","p","o","l","i","c","y">>}

C23_UnsupportedCarriesError ==
    api_fn = "checkLanguageSupport" =>
        /\ api_pc # "rejected"
        /\ api_pc = "resolved" =>
              /\ ~api_out.supported => HasError(api_out) /\ api_out.error # <<>>
              /\ api_out.supported <=>
                    ("supportedBy" \in DOMAIN api_out /\ api_out.supportedBy # <<>>)

(***************************************************************************)
(* Properties of the timestamp                                             *)
(***************************************************************************)
\* C24: the object a caller receives from translateWithWordReference or
\* translateWithLinguee has the timestamp its scraper gave the result at
\* construction
C24_TimestampAssignedOnce ==
    \A d \in Dictionaries :
        (/\ api_fn \in LookupFunctions
         /\ api_pc = "resolved"
         /\ sc[d].pc = "returned"
         /\ "timestamp" \in DOMAIN sc[d].out) =>
            api_out.timestamp = sc[d].out.timestamp

(***************************************************************************)
(* Properties of extractFrequency                                          *)
(***************************************************************************)
\* the lower-cased text of the tags
FrequencyText == ToLowerCase(Concat(fq_element))

\* C26: text containing the very-frequent phrase gives high, text containing
\* the less-frequent phrase gives low, text containing only the plain
\* frequent phrase gives medium, and a missing or unmatched tag gives unknown
C26_ThreeTiers ==
    fq_pc = "done" =>
        IF Len(fq_element) = 0 THEN fq_out = "unknown"
        ELSE IF Includes(FrequencyText, <<"m","u","y"," ","f","r","e","c","u","e","n","t","e">>) THEN fq_out = "high"
        ELSE IF Includes(FrequencyText, <<"m","e","n","o","s"," ","f","r","e","c","u","e","n","t","e">>) THEN fq_out = "low"
        ELSE IF Includes(FrequencyText, <<"f","r","e","c","u","e","n","t","e">>) THEN fq_out = "medium"
        ELSE fq_out = "unknown"

(***************************************************************************)
(* Properties of RateLimiter                                               *)
(***************************************************************************)
\* the functions called by the loop that have not ended
InFlight ==
    {id \in 1..MaxCalls :
        (\E k \in 1..Len(rl_started) : rl_started[k] = id) /\ rl_fn[id] = "none"}

\* C28: at most one function is in flight, a function is called only after
\* every function called before it has ended, and the functions are called
\* in the order of their execute calls
C28_OneInFlightInOrder ==
    rl_pc # "unused" =>
        /\ Cardinality(InFlight) <= 1
        /\ \A k \in 1..Len(rl_started) : rl_started[k] = k
        /\ \A k \in 1..(Len(rl_started) - 1) : rl_fn[rl_started[k]] # "none"
        /\ Len(rl_started) <= Len(rl_calls)

\* three functions submitted, the second and third while the first was in
\* flight, and the third now in flight
C28_Witness ==
    /\ rl_calls = <<FALSE, TRUE, TRUE>>
    /\ rl_started = <<1, 2, 3>>
    /\ InFlight = {3}

\* nothing is queued, sleeping or in flight
QueueDrained == rl_queue = <<>> /\ rl_pc = "idle"

\* C29: every submitted function is eventually called and the promise of
\* its execute call settled, with the function's own outcome; when the queue
\* has drained processing is false
C29_EveryCallSettles ==
    /\ [](rl_pc # "unused" =>
            /\ \A id \in 1..MaxCalls :
                   /\ rl_promise[id] = rl_fn[id]
                   /\ rl_fn[id] # "none" => \E k \in 1..Len(rl_started) : rl_started[k] = id
            /\ QueueDrained => ~rl_processing)
    /\ \A id \in 1..MaxCalls :
           (rl_pc # "unused" /\ Len(rl_calls) >= id) ~> (rl_promise[id] # "none")

\* the second function was submitted while the loop was running, the first
\* one rejected, the second resolved, and the queue has drained
C29_Witness ==
    /\ Len(rl_calls) >= 2
    /\ rl_calls[2]
    /\ rl_promise[1] = "rejected"
    /\ rl_promise[2] = "resolved"
    /\ QueueDrained
    /\ ~rl_processing

\* the elements of an array
Elements(list) == {list[k] : k \in 1..Len(list)}

\* a call of translate at its end against the value of checkLanguageSupport
\* for the same arguments
AgreesWith(support) ==
    /\ api_pc = "resolved" =>
           /\ "error" \notin DOMAIN support
           /\ DOMAIN api_out.dictionaries = Elements(support.supportedBy)
    /\ "error" \notin DOMAIN support =>
           ((api_pc = "rejected" /\ api_out.thrown =
                 <<"No dictionaries support the language pair ">>
                 \o PairText(support.normalizedFrom, support.normalizedTo))
            <=> ~support.supported)
    /\ "error" \notin DOMAIN support /\ api_pc = "rejected" => ~support.supported

=============================================================================
